---- MODULE Spec2Model ----
(***************************************************************************)
(* Model of the synchronisation engine of wbs2tb-ts                        *)
(* (src/src/main/cookieManager.ts): RateLimiter, TeambitionAPIClient and   *)
(* SyncEngineV2, and of the renderer's start and stop actions              *)
(* (src/src/renderer/uiManager.ts).                                        *)
(*                                                                         *)
(* The program runs on one JavaScript event loop.  An action of this model *)
(* is one run-to-completion piece of code: from the start of a handler or  *)
(* the resumption after an await up to the next await that needs a timer   *)
(* or network I/O.                                                         *)
(*                                                                         *)
(* The specifications of the module:                                       *)
(*   SpecRL      RateLimiter.acquire with a clock and concurrent callers   *)
(*   SpecRLFair  the same when time advances and due timers fire           *)
(*   SpecReq     TeambitionAPIClient.request, its retry loop               *)
(*   Spec        SyncEngineV2: overlapping sync / stop / batches /         *)
(*               semaphore                                                 *)
(*   SpecStop    SyncEngineV2: sync() calls one after the other, stop()    *)
(*               at any time                                               *)
(*   SpecTask    SyncEngineV2: one sync() run over every shape of a task   *)
(*   SpecRun     SyncEngineV2: one sync() run over several batches, with   *)
(*               stop() and failing bootstrap calls                        *)
(*   SpecRunFair the same when continuations run and remote calls end      *)
(*   SpecMembers one sync() run whose getAllMembers meets every roster and *)
(*               every outcome of its requests                             *)
(*   SpecMatch   the task matcher and calculateSimilarity on their own     *)
(*   SpecUI      the renderer's UIManager.startSync / stopSync and the     *)
(*               start-sync handler of the main process                    *)
(***************************************************************************)
EXTENDS Integers, Sequences, FiniteSets, TLC

(***************************************************************************)
(* Bounds of the model.                                                    *)
(***************************************************************************)
\* RateLimiter(maxRequests, timeWindow): the constructor's two parameters,
\* scaled down (the client builds RateLimiter(5, 1000)).
MaxRequests == 2
TimeWindow == 3
\* the clock of SpecRL runs freely from 0 to MaxTime
MaxTime == 7
\* concurrent callers of acquire() and the number of acquire() calls served
NumCallers == 3
MaxGrants == 5
\* startSync invocations of SpecUI, and stop-button clicks awaiting their answer
NumClicks == 2
MaxStopClicks == 1
\* concurrent request() calls of SpecReq
NumRequests == 2
\* sync() invocations, source tasks per invocation, and the configuration
\* values tried by Spec
NumRuns == 2
MaxTasks == 2
MaxBatchSize == 2
MaxWidth == 1
MaxConfigured == 1
\* planned hours are counted in half hours, 0..MaxHalfHours
MaxHalfHours == 3

VARIABLES
    \* ---- RateLimiter (SpecRL)
    now,          \* Date.now()
    requests,     \* RateLimiter.requests: timestamps of the granted acquires
    rlpc,         \* per caller: "idle" | "waiting" (inside the setTimeout await)
    rlwake,       \* per caller: the time its setTimeout is due
    grants,       \* history: every timestamp ever pushed, in push order
    rlwaits,      \* history, per caller: the setTimeout awaits of its last acquire()
    \* ---- TeambitionAPIClient.request (SpecReq)
    rqpc,         \* per call: "idle" | "acquire" | "http" | "backoff" | "resolved" | "rejected"
    rqurl,        \* per call: whether new URL(url) succeeds
    retries,      \* per call: the local `retries`
    lastError,    \* per call: the local `lastError` (its message)
    rqtries,      \* history: loop iterations started (entries of the try block)
    rqhttp,       \* history: https.request calls made
    rqwaits,      \* history: the backoff delays slept, in ms
    rqresp,       \* history: the response or error event that ended the last HTTP call
    rqres,        \* per call: the value the call resolved with or the error it rejected with
    \* ---- SyncEngineV2 (Spec, SpecTask)
    cfg,          \* what this.config.getConfig() returns
    isRunning,    \* SyncEngineV2.isRunning
    stats,        \* SyncEngineV2.stats
    rpc,          \* per sync() invocation: "idle" | "boot" | "loop" | "batch" | "returned"
    rtasks,       \* per invocation: its argument `tasks`
    ri,           \* per invocation: the loop variable i of the batch loop
    boot,         \* per invocation: the bootstrap call it awaits (1..4)
    sem,          \* per invocation: the semaphore of its current batch, [count, queue]
    tpc,          \* per invocation and task: where processTaskWithSemaphore stands
    results,      \* per invocation and task: the local `results` of processSingleTask
    cur,          \* per invocation and task: currentPlannedTime of updateTaskPlanTime
    micro,        \* continuations that run before the next timer or I/O event
    ret,          \* per invocation: what sync() returned
    \* history
    sent,         \* per invocation and task: the requests it issued, in order
    tout,         \* per invocation and task: how its processing ended
    nbatch,       \* per invocation: batches started
    stopped,      \* per invocation: stop() was called while it was active
    overlap,      \* per invocation: it was called while another one was active
    batches,      \* per invocation: the batches started, each the positions of its tasks
    \* ---- the remote client of the engine
    apiClient,    \* SyncEngineV2.apiClient: NoClient, or the invocation that built it
    cache,        \* per client: the entries of TeambitionAPIClient.cache
    bclient,      \* per invocation: the client its pending bootstrap call runs on
    \* ---- what the bootstrap of an invocation has fetched
    roster,       \* per invocation: where getAllMembers stands, its tbMembers and ddMembers
    rmembers,     \* per invocation: the local `allMembers` of sync()
    rindex,       \* per invocation: the local `allTasks` of sync()
    \* ---- the task matcher and calculateSimilarity on their own (SpecMatch)
    mpc,          \* "input" | "matched" | "compared"
    mname,        \* taskName
    mindex,       \* allTasks, in Object.entries order
    mid,          \* the taskId the two passes end with
    mdist,        \* the distances and the similarity calculateSimilarity computed
    \* ---- the renderer's UIManager and the two sync channels to main (SpecUI)
    isSyncing,    \* UIManager.isSyncing
    upc,          \* per startSync invocation: where it stands
    ustops,       \* per startSync invocation: its stopSync() calls awaiting stop-sync
    bstops,       \* stopSync() calls of the stop button awaiting stop-sync
    msync,        \* per startSync invocation: where its start-sync request stands
    raced,        \* history: a startSync passed the guard while another awaited validateConfig
    \* ---- SyncEngineV2.stop
    idleStops     \* history: for each stop() called while no sync() call was active,
                  \* the number of sync() calls made before it

rlVars == <<now, requests, rlpc, rlwake, grants, rlwaits>>
rqVars == <<rqpc, rqurl, retries, lastError, rqtries, rqhttp, rqwaits, rqresp, rqres>>
enVars == <<cfg, isRunning, stats, rpc, rtasks, ri, boot, sem, tpc, results, cur,
            micro, ret, sent, tout, nbatch, stopped, overlap, batches>>
clVars == <<apiClient, cache, bclient>>
bsVars == <<roster, rmembers, rindex>>
mtVars == <<mpc, mname, mindex, mid, mdist>>
uiVars == <<isSyncing, upc, ustops, bstops, msync, raced>>
hsVars == <<idleStops>>
vars == <<rlVars, rqVars, enVars, clVars, bsVars, mtVars, uiVars, hsVars>>

Callers == 1..NumCallers
Calls == 1..NumRequests
Runs == 1..NumRuns

(***************************************************************************)
(* RateLimiter                                                             *)
(***************************************************************************)
\* this.requests.filter(time => now - time < this.timeWindow)
LiveRequests(reqs, t) == SelectSeq(reqs, LAMBDA time : t - time < TimeWindow)

WindowFullOffByOne(reqs) == Len(reqs) > MaxRequests
\* this.requests.length >= this.maxRequests
WindowFull(reqs) == Len(reqs) >= MaxRequests

\* this.timeWindow - (now - oldest), oldest = this.requests[0]
WaitTime(reqs, t) == TimeWindow - (t - reqs[1])

\* The body of acquire() from Date.now() to the setTimeout await or to the push.
acquire(c) ==
    LET live == LiveRequests(requests, now) IN
    IF WindowFull(live) /\ WaitTime(live, now) > 0
    THEN /\ requests' = live
         /\ rlpc' = [rlpc EXCEPT ![c] = "waiting"]
         /\ rlwake' = [rlwake EXCEPT ![c] = now + WaitTime(live, now)]
         /\ UNCHANGED grants
    ELSE /\ requests' = Append(live, now)
         /\ grants' = Append(grants, now)
         /\ rlpc' = [rlpc EXCEPT ![c] = "idle"]
         /\ rlwake' = [rlwake EXCEPT ![c] = 0]

\* A caller calls acquire().
RLAcquire(c) ==
    /\ rlpc[c] = "idle"
    /\ Len(grants) + Cardinality({d \in Callers : rlpc[d] = "waiting"}) < MaxGrants
    /\ acquire(c)
    /\ rlwaits' = [rlwaits EXCEPT ![c] = IF rlpc'[c] = "waiting" THEN 1 ELSE 0]
    /\ UNCHANGED <<now, rqVars, enVars, clVars, bsVars, mtVars, uiVars, hsVars>>

RLWakeWithoutReevaluation(c) ==
    /\ rlpc[c] = "waiting"
    /\ now >= rlwake[c]
    /\ requests' = Append(requests, now)
    /\ grants' = Append(grants, now)
    /\ rlpc' = [rlpc EXCEPT ![c] = "idle"]
    /\ rlwake' = [rlwake EXCEPT ![c] = 0]
    /\ UNCHANGED <<now, rlwaits, rqVars, enVars, clVars, bsVars, mtVars, uiVars, hsVars>>
\* The setTimeout of a waiting caller fires (at or after its due time) and the
\* caller runs `return this.acquire()`.
RLWake(c) ==
    /\ rlpc[c] = "waiting"
    /\ now >= rlwake[c]
    /\ acquire(c)
    /\ rlwaits' = [rlwaits EXCEPT ![c] = IF rlpc'[c] = "waiting" THEN @ + 1 ELSE @]
    /\ UNCHANGED <<now, rqVars, enVars, clVars, bsVars, mtVars, uiVars, hsVars>>

\* Time passes: freely up to MaxTime, and beyond it up to the due time of a
\* pending setTimeout.
RLTick ==
    /\ \/ now < MaxTime
       \/ \E c \in Callers : rlpc[c] = "waiting" /\ now < rlwake[c]
    /\ now' = now + 1
    /\ UNCHANGED <<requests, rlpc, rlwake, grants, rlwaits, rqVars, enVars, clVars, bsVars, mtVars, uiVars, hsVars>>

RLInit ==
    /\ now = 0
    /\ requests = <<>>
    /\ rlpc = [c \in Callers |-> "idle"]
    /\ rlwake = [c \in Callers |-> 0]
    /\ grants = <<>>
    /\ rlwaits = [c \in Callers |-> 0]

(***************************************************************************)
(* TeambitionAPIClient.request                                             *)
(***************************************************************************)
\* const maxRetries = 3
maxRetries == 3
\* Math.pow(2, retries) * 1000
BackoffBaseMs == 1000

Pow2(n) == IF n = 0 THEN 1 ELSE IF n = 1 THEN 2 ELSE IF n = 2 THEN 4 ELSE 8
Backoff(n) == Pow2(n) * BackoffBaseMs

\* What can end one HTTP call: the 'end' of a response with a status code
\* (0 stands for an undefined res.statusCode) and a body, or the request's
\* 'error' event.
StatusCodes == {0, 199, 200, 299, 300, 404, 500}
Bodies == {"json", "jsonMessage", "text"}
Responses == [kind : {"response"}, status : StatusCodes, body : Bodies]
NetworkError == [kind |-> "error", status |-> 0, body |-> "ECONNRESET"]
HttpEvents == Responses \cup {NetworkError}
NoEvent == [kind |-> "none", status |-> 0, body |-> ""]

\* res.statusCode && res.statusCode >= 200 && res.statusCode < 300
Is2xx(status) == status # 0 /\ status >= 200 /\ status < 300

\* The value the response handler resolves the promise with.
Resolution(resp) ==
    IF Is2xx(resp.status)
    THEN IF resp.body = "text"
         THEN [success |-> FALSE, code |-> resp.status, error |-> "Failed to parse JSON"]
         ELSE [success |-> TRUE, code |-> resp.status, error |-> ""]
    ELSE [success |-> FALSE, code |-> resp.status,
          error |-> IF resp.body = "jsonMessage" THEN "HTTP: message" ELSE "HTTP: body"]

NoResult == [success |-> FALSE, code |-> -1, error |-> "none"]

RQInit ==
    /\ rqpc = [p \in Calls |-> "idle"]
    /\ rqurl = [p \in Calls |-> TRUE]
    /\ retries = [p \in Calls |-> 0]
    /\ lastError = [p \in Calls |-> ""]
    /\ rqtries = [p \in Calls |-> 0]
    /\ rqhttp = [p \in Calls |-> 0]
    /\ rqwaits = [p \in Calls |-> <<>>]
    /\ rqresp = [p \in Calls |-> NoEvent]
    /\ rqres = [p \in Calls |-> NoResult]

\* request(method, url, options) is called: retries = 0, the loop is entered and
\* the first await this.rateLimiter.acquire() is reached.
RQCall(p, urlOk) ==
    /\ rqpc[p] = "idle"
    /\ rqpc' = [rqpc EXCEPT ![p] = "acquire"]
    /\ rqurl' = [rqurl EXCEPT ![p] = urlOk]
    /\ retries' = [retries EXCEPT ![p] = 0]
    /\ rqtries' = [rqtries EXCEPT ![p] = 1]
    /\ UNCHANGED <<lastError, rqhttp, rqwaits, rqresp, rqres, rlVars, enVars, clVars, bsVars, mtVars, uiVars, hsVars>>

\* The catch block: lastError = error; retries++; then the backoff await, or the
\* loop ends and the terminal error is thrown.
CatchAndRetry(p, msg) ==
    /\ lastError' = [lastError EXCEPT ![p] = msg]
    /\ retries' = [retries EXCEPT ![p] = retries[p] + 1]
    /\ IF retries[p] + 1 < maxRetries
       THEN /\ rqpc' = [rqpc EXCEPT ![p] = "backoff"]
            /\ rqwaits' = [rqwaits EXCEPT ![p] = Append(rqwaits[p], Backoff(retries[p] + 1))]
            /\ UNCHANGED rqres
       ELSE /\ rqpc' = [rqpc EXCEPT ![p] = "rejected"]
            /\ rqres' = [rqres EXCEPT ![p] =
                   [success |-> FALSE, code |-> -1,
                    error |-> "Request failed after 3 retries: " \o msg]]
            /\ UNCHANGED rqwaits

\* The rate limiter grants: the code up to `return new Promise(...)` runs.  new
\* URL(url) throws inside the try block for a malformed url; otherwise
\* https.request is called and the promise is returned, which leaves the try
\* block.
RQGranted(p) ==
    /\ rqpc[p] = "acquire"
    /\ IF rqurl[p]
       THEN /\ rqpc' = [rqpc EXCEPT ![p] = "http"]
            /\ rqhttp' = [rqhttp EXCEPT ![p] = rqhttp[p] + 1]
            /\ UNCHANGED <<retries, lastError, rqwaits, rqres>>
       ELSE /\ CatchAndRetry(p, "Invalid URL")
            /\ UNCHANGED rqhttp
    /\ UNCHANGED <<rqurl, rqtries, rqresp, rlVars, enVars, clVars, bsVars, mtVars, uiVars, hsVars>>

\* The backoff timer fires: the next loop iteration starts.
RQBackoffDone(p) ==
    /\ rqpc[p] = "backoff"
    /\ rqpc' = [rqpc EXCEPT ![p] = "acquire"]
    /\ rqtries' = [rqtries EXCEPT ![p] = rqtries[p] + 1]
    /\ UNCHANGED <<rqurl, retries, lastError, rqhttp, rqwaits, rqresp, rqres, rlVars, enVars, clVars, bsVars, mtVars, uiVars, hsVars>>

\* A mutant of RQHttpEnd: a non-2xx answer is thrown into the retry loop.
RQHttpEndRetryingNon2xx(p, ev) ==
    /\ rqpc[p] = "http"
    /\ rqresp' = [rqresp EXCEPT ![p] = ev]
    /\ IF ev.kind = "response" /\ Is2xx(ev.status)
       THEN /\ rqpc' = [rqpc EXCEPT ![p] = "resolved"]
            /\ rqres' = [rqres EXCEPT ![p] = Resolution(ev)]
            /\ UNCHANGED <<retries, lastError, rqwaits>>
       ELSE CatchAndRetry(p, "HTTP")
    /\ UNCHANGED <<rqurl, rqtries, rqhttp, rlVars, enVars, clVars, bsVars, mtVars, uiVars, hsVars>>

\* The HTTP call ends.  res.on('end') resolves the returned promise; req.on('error')
\* rejects it.  The promise was returned without await, so the function has left
\* its try block: its rejection is the rejection of request() itself, and the
\* catch block does not run.
RQHttpEnd(p, ev) ==
    /\ rqpc[p] = "http"
    /\ rqresp' = [rqresp EXCEPT ![p] = ev]
    /\ IF ev.kind = "response"
       THEN /\ rqpc' = [rqpc EXCEPT ![p] = "resolved"]
            /\ rqres' = [rqres EXCEPT ![p] = Resolution(ev)]
       ELSE /\ rqpc' = [rqpc EXCEPT ![p] = "rejected"]
            /\ rqres' = [rqres EXCEPT ![p] =
                   [success |-> FALSE, code |-> -1, error |-> ev.body]]
    /\ UNCHANGED <<rqurl, retries, lastError, rqtries, rqhttp, rqwaits, rlVars, enVars, clVars, bsVars, mtVars, uiVars, hsVars>>


(***************************************************************************)
(* SyncEngineV2: data                                                      *)
(***************************************************************************)
\* null / undefined / '' of an identifier or a string field
Null == ""
\* an absent configuration key (undefined)
Undefined == 0
\* planTimeMs === null, and a task without plan_time
NoPlan == -1
\* the aggregation endpoint returns an empty payload
NoRecord == -1
\* Math.round(planTimeVal * 3600000)
MsPerHour == 3600000
\* `|| 5` and `|| 20`
DefaultMaxConcurrent == 5
DefaultBatchSize == 20

\* this.apiClient === null
NoClient == 0
BootstrapCallsWithoutIndex == <<"getOrganizationId", "getTasklistId", "getAllMembers">>
\* The four awaits of the bootstrap of sync(), in program order.
BootstrapCalls == <<"getOrganizationId", "getTasklistId", "getAllMembers", "getAllTasks">>

\* Display names are sequences of characters.
NameABC == <<"a", "b", "c">>
NameABD == <<"A", "b", "d">>
NameXYZ == <<"x", "y", "z">>
NameQ == <<"q">>

\* The remote task index of a run, in Object.entries order.
RemoteIndex == << [id |-> "t1", name |-> NameABC], [id |-> "t2", name |-> NameXYZ] >>
\* The member directory of a run, in Object.entries order.
Directory == << [userId |-> "u1", name |-> "Ann"], [userId |-> "u2", name |-> "Bob"] >>

\* The rosters the two member endpoints answer with, as the objects
\* getTbMembers and getDdMembers build from them (userId -> name, in
\* Object.entries order; the ids are not array indices).
PrimaryRosters == { Directory, << [userId |-> "u1", name |-> "Ann"] >> }
ExternalRosters ==
    { << [userId |-> "u9", name |-> "Ann"] >>,
      << [userId |-> "u1", name |-> "Anna"], [userId |-> "u3", name |-> "Cy"] >>,
      << [userId |-> "u3", name |-> "Bob"], [userId |-> "u2", name |-> "Bo"] >> }

\* key in obj, and obj[key]
HasKey(members, id) == \E k \in 1..Len(members) : members[k].userId = id
ValueOf(members, id) == members[CHOOSE k \in 1..Len(members) : members[k].userId = id].name

\* { ...tbMembers, ...ddMembers }: a key of tbMembers keeps its place and takes
\* the value ddMembers has for it; the other keys of ddMembers follow in their
\* order.
Spread(tbMembers, ddMembers) ==
    [k \in 1..Len(tbMembers) |->
        IF HasKey(ddMembers, tbMembers[k].userId)
        THEN [userId |-> tbMembers[k].userId, name |-> ValueOf(ddMembers, tbMembers[k].userId)]
        ELSE tbMembers[k]]
    \o SelectSeq(ddMembers, LAMBDA e : ~HasKey(tbMembers, e.userId))

\* this.config.getConfig().maxConcurrentRequests || 5
SemaphoreWidth(c) ==
    IF c.maxConcurrentRequests = Undefined THEN DefaultMaxConcurrent
    ELSE c.maxConcurrentRequests

\* config.batchSize || 20
BatchSize(c) == IF c.batchSize = 0 THEN DefaultBatchSize ELSE c.batchSize

\* url.match(/\/project\/([a-f0-9]+)/), for the project urls of the model
extractProjectId(url) ==
    CASE url = "https://www.teambition.com/project/5f0a1b" -> "5f0a1b"
      [] url = "https://www.teambition.com/project/XYZ" -> Null
      [] url = "https://www.teambition.com/organization/5f0a1b" -> Null
      [] OTHER -> Null

ConfigValidWithoutId(c) == c.projectUrl # Null /\ c.cookies # Null
\* !config.projectUrl || !config.cookies
ConfigPresent(c) == c.projectUrl # Null /\ c.cookies # Null
\* neither that check nor !projectId throws
ConfigValid(c) == ConfigPresent(c) /\ extractProjectId(c.projectUrl) # Null

\* getUserIdByName: the first entry whose name equals `name`, else null
RECURSIVE FirstUserId(_, _, _)
FirstUserId(name, members, k) ==
    IF k > Len(members) THEN Null
    ELSE IF members[k].name = name THEN members[k].userId
    ELSE FirstUserId(name, members, k + 1)
getUserIdByName(name, members) == FirstUserId(name, members, 1)

\* `${task.task_number || ''} ${task.task_title}`.trim()
TaskName(task) ==
    IF task.task_number = <<>> THEN task.task_title
    ELSE task.task_number \o <<" ">> \o task.task_title

\* str.toLowerCase()
LowerChar(ch) == IF ch = "A" THEN "a" ELSE IF ch = "B" THEN "b" ELSE ch
toLowerCase(str) == [k \in 1..Len(str) |-> LowerChar(str[k])]

Min3(a, b, c) == IF a <= b /\ a <= c THEN a ELSE IF b <= c THEN b ELSE c
Max2(a, b) == IF a >= b THEN a ELSE b
Min2(a, b) == IF a <= b THEN a ELSE b

\* A mutant of matrix: an insertion costs 2.
RECURSIVE matrixCostlyInsert(_, _, _, _)
matrixCostlyInsert(str1, str2, i, j) ==
    IF j = 0 THEN i
    ELSE IF i = 0 THEN 2 * j
    ELSE Min3(matrixCostlyInsert(str1, str2, i - 1, j) + 1,
              matrixCostlyInsert(str1, str2, i, j - 1) + 2,
              matrixCostlyInsert(str1, str2, i - 1, j - 1)
                  + (IF str1[i] = str2[j] THEN 0 ELSE 1))

\* matrix[i][j] of calculateSimilarity
RECURSIVE matrix(_, _, _, _)
matrix(str1, str2, i, j) ==
    IF j = 0 THEN i
    ELSE IF i = 0 THEN j
    ELSE Min3(matrix(str1, str2, i - 1, j) + 1,
              matrix(str1, str2, i, j - 1) + 1,
              matrix(str1, str2, i - 1, j - 1)
                  + (IF str1[i] = str2[j] THEN 0 ELSE 1))

\* const distance = matrix[len1][len2]
distance(str1, str2) == matrix(str1, str2, Len(str1), Len(str2))

\* calculateSimilarity returns 1 - distance / max(len1, len2); the model keeps
\* the score as the pair (distance, max length), 1 being (0, 1).
calculateSimilarity(s1, s2) ==
    LET str1 == toLowerCase(s1)
        str2 == toLowerCase(s2)
    IN IF str1 = str2 THEN [d |-> 0, m |-> 1]
       ELSE [d |-> matrix(str1, str2, Len(str1), Len(str2)),
             m |-> Max2(Len(str1), Len(str2))]
ScoreGreaterOrEqual(a, b) == a.d * b.m <= b.d * a.m
\* score > other, and score > 0.5
ScoreGreater(a, b) == a.d * b.m < b.d * a.m
ScoreAtLeastHalf(a) == 2 * a.d <= a.m
ScoreAboveHalf(a) == 2 * a.d < a.m
ScoreZero == [d |-> 1, m |-> 1]

\* first pass: for (...) if (name === taskName) { taskId = id; break; }
RECURSIVE ExactMatch(_, _, _)
ExactMatch(taskName, allTasks, k) ==
    IF k > Len(allTasks) THEN Null
    ELSE IF allTasks[k].name = taskName THEN allTasks[k].id
    ELSE ExactMatch(taskName, allTasks, k + 1)

\* second pass: the loop with bestMatchScore
RECURSIVE FuzzyMatch(_, _, _, _, _)
FuzzyMatch(taskName, allTasks, k, bestMatchScore, taskId) ==
    IF k > Len(allTasks) THEN taskId
    ELSE LET score == calculateSimilarity(taskName, allTasks[k].name) IN
         IF ScoreGreater(score, bestMatchScore) /\ ScoreAboveHalf(score)
         THEN FuzzyMatch(taskName, allTasks, k + 1, score, allTasks[k].id)
         ELSE FuzzyMatch(taskName, allTasks, k + 1, bestMatchScore, taskId)

\* A mutant of MatchTask: the exact pass is left out.
MatchTaskFuzzyOnly(taskName, allTasks) == FuzzyMatch(taskName, allTasks, 1, ScoreZero, Null)

\* the two passes of processSingleTask
MatchTask(taskName, allTasks) ==
    LET exact == ExactMatch(taskName, allTasks, 1) IN
    IF exact # Null THEN exact
    ELSE FuzzyMatch(taskName, allTasks, 1, ScoreZero, Null)

IndexWithoutMatch(index, taskId) == SelectSeq(index, LAMBDA e : e.id # taskId)
\* allTasks once the two passes over Object.entries(allTasks) have ended:
\* processSingleTask reads the index and never writes it
IndexAfterMatch(index, taskId) == index

\* ---- the `updates` of processSingleTask
\* if (task.reminder_rule_api) updates.reminder_rule = task.reminder_rule
ReminderRule(task) == IF task.reminder_rule_api # Null THEN task.reminder_rule ELSE Null

\* if (task.executor) executorId = getUserIdByName(task.executor, allMembers)
ExecutorId(task, members) ==
    IF task.executor # Null THEN getUserIdByName(task.executor, members) ELSE Null

InvolverIdsUnfiltered(task, members) ==
    LET names == SelectSeq(task.involvers, LAMBDA n : n # Null)
    IN [k \in 1..Len(names) |-> getUserIdByName(names[k], members)]
\* names split, trimmed, the empty ones dropped; then the ids that resolve
InvolverIds(task, members) ==
    LET names == SelectSeq(task.involvers, LAMBDA n : n # Null)
        ids == [k \in 1..Len(names) |-> getUserIdByName(names[k], members)]
    IN SelectSeq(ids, LAMBDA id : id # Null)

\* plan_time is kept in half hours: Math.round(planTimeVal * 3600000)
PlanTimeMs(task) ==
    IF task.plan_time = NoPlan THEN NoPlan ELSE (task.plan_time * MsPerHour) \div 2

\* pdtName ? getUserIdByName(pdtName, allMembers) : null
ManagerId(c, members) == IF c.pdt # Null THEN getUserIdByName(c.pdt, members) ELSE Null

PlanPrerequisitesExecutorOptional(c, task, members) ==
    /\ ManagerId(c, members) # Null
    /\ task.start_date # Null
    /\ task.end_date # Null
\* managerId && executorId && updates.start_date && updates.end_date
PlanPrerequisites(c, task, members) ==
    /\ ManagerId(c, members) # Null
    /\ ExecutorId(task, members) # Null
    /\ task.start_date # Null
    /\ task.end_date # Null

\* the early return of updateTaskPlanTime
PlanTimeSkips(userId, startDate, endDate, planTimeMs) ==
    userId = Null \/ startDate = Null \/ endDate = Null \/ planTimeMs = NoPlan

CurrentPlannedTimeFromPayload(out, rec) == IF rec # NoRecord THEN rec ELSE 0
\* let currentPlannedTime = 0, assigned only inside the try block and only when
\* the read succeeded with a non-empty payload
CurrentPlannedTime(out, rec) ==
    IF ~out.raised /\ out.success /\ rec # NoRecord THEN rec ELSE 0

TopUpAlways(currentPlannedTime, planTimeMs) == TRUE
\* if (currentPlannedTime < planTimeMs)
TopUpNeeded(currentPlannedTime, planTimeMs) == currentPlannedTime < planTimeMs

\* ---- the `results` of processSingleTask: a status per field, Absent for a
\* field without an entry
Absent == 0
Fields == {"startDate", "dueDate", "reminder", "executor", "involvers", "planTime"}
EmptyResults == [f \in Fields |-> Absent]

AllSuccessAny(res) == \E f \in Fields : res[f] = 200
AllSuccessOfSome(res) ==
    /\ \E f \in Fields : res[f] # Absent
    /\ \A f \in Fields : res[f] # Absent => res[f] = 200
\* Object.values(results).every(status => status === 200)
AllSuccess(res) == \A f \in Fields : res[f] # Absent => res[f] = 200

\* success ? 200 : 500
StatusOf(success) == IF success THEN 200 ELSE 500

\* The await a task reaches next, after the field numbered k (0: from the start):
\* the fields are 1 dates, 2 reminder, 3 executor, 4 involvers, 5 planned time.
Populated(c, task, members, k) ==
    CASE k = 1 -> task.start_date # Null \/ task.end_date # Null
      [] k = 2 -> ReminderRule(task) # Null
      [] k = 3 -> ExecutorId(task, members) # Null
      [] k = 4 -> InvolverIds(task, members) # <<>>
      [] k = 5 -> PlanTimeMs(task) # NoPlan

PhaseName(k) ==
    CASE k = 1 -> "dates" [] k = 2 -> "reminder" [] k = 3 -> "executor"
      [] k = 4 -> "involvers" [] k = 5 -> "planGet" [] k = 6 -> "planPost"
PhaseNo(pc) ==
    CASE pc = "dates" -> 1 [] pc = "reminder" -> 2 [] pc = "executor" -> 3
      [] pc = "involvers" -> 4 [] pc = "planGet" -> 5 [] pc = "planPost" -> 5
Awaiting == {"dates", "reminder", "executor", "involvers", "planPost"}

\* A mutant of AfterField: the first failed field ends the task's updates.
AfterFieldStopOnFailure(c, task, members, res, k) ==
    LET next == {j \in (k + 1)..5 : Populated(c, task, members, j)} IN
    IF next = {} \/ \E f \in Fields : res[f] = 500 THEN [pc |-> "finish", res |-> res]
    ELSE LET j == CHOOSE x \in next : \A y \in next : x <= y IN
         IF j < 5 THEN [pc |-> PhaseName(j), res |-> res]
         ELSE IF ~PlanPrerequisites(c, task, members)
         THEN [pc |-> "finish", res |-> [res EXCEPT !["planTime"] = 500]]
         ELSE [pc |-> "planGet", res |-> res]

\* What follows field k in the try block: the next request to await, or the end
\* of the fields ("finish").  A planned time without its prerequisites sets
\* results.planTime = 500 on the way.
AfterField(c, task, members, res, k) ==
    LET next == {j \in (k + 1)..5 : Populated(c, task, members, j)} IN
    IF next = {} THEN [pc |-> "finish", res |-> res]
    ELSE LET j == CHOOSE x \in next : \A y \in next : x <= y IN
         IF j < 5 THEN [pc |-> PhaseName(j), res |-> res]
         ELSE IF ~PlanPrerequisites(c, task, members)
         THEN [pc |-> "finish", res |-> [res EXCEPT !["planTime"] = 500]]
         ELSE IF PlanTimeSkips(ExecutorId(task, members), task.start_date,
                               task.end_date, PlanTimeMs(task))
         THEN [pc |-> "finish", res |-> [res EXCEPT !["planTime"] = 200]]
         ELSE [pc |-> "planGet", res |-> res]

\* The request a task issues when it reaches an await, as the history keeps
\* it: the operation, the planned time it carries (the amount of a POST, the
\* recorded time a GET reports) and how it ended.
RequestOf(pc, amount) ==
    [op |-> CASE pc = "dates" -> "updateTaskDates"
              [] pc = "reminder" -> "setTaskReminder"
              [] pc = "executor" -> "setTaskExecutor"
              [] pc = "involvers" -> "addTaskInvolvers"
              [] pc = "planGet" -> "getPlanTime"
              [] pc = "planPost" -> "postPlanTime",
     planTime |-> amount,
     ids |-> <<>>,
     outcome |-> "pending"]

\* The member ids a request carries: { _executorId: userId } and
\* { addInvolvers: userIds }
RequestIds(task, members, pc) ==
    CASE pc = "executor" -> << ExecutorId(task, members) >>
      [] pc = "involvers" -> InvolverIds(task, members)
      [] OTHER -> <<>>

\* The history of a task with the outcome of its last request filled in.
Answered(log, outcome) == [log EXCEPT ![Len(log)].outcome = outcome]
Reported(log, outcome, rec) ==
    [log EXCEPT ![Len(log)].outcome = outcome, ![Len(log)].planTime = rec]

\* What a field-update method gets from request() for a well-formed url: the
\* resolution of the response, or the rejection of the 'error' event.
RequestOutcome(ev) ==
    IF ev.kind = "error"
    THEN [raised |-> TRUE, success |-> FALSE, error |-> ev.body]
    ELSE [raised |-> FALSE, success |-> Resolution(ev).success, error |-> ""]
OutcomeOf(out) == IF out.raised THEN "raise" ELSE IF out.success THEN "ok" ELSE "fail"

\* ---- statistics
FreshStats(n) == [total |-> n, success |-> 0, failed |-> 0, skipped |-> 0, failedTasks |-> <<>>]
CountSuccess(st) == [st EXCEPT !.success = st.success + 1]
CountSkippedLost(st) == st
CountSkippedTwice(st) == [st EXCEPT !.skipped = st.skipped + 2]
CountSkipped(st) == [st EXCEPT !.skipped = st.skipped + 1]
CountFailedWithoutRow(st, task, err) == [st EXCEPT !.failed = st.failed + 1]
CountFailed(st, task, err) ==
    [st EXCEPT !.failed = st.failed + 1,
               !.failedTasks = Append(st.failedTasks,
                   [row |-> task.rowIndex, task_name |-> TaskName(task), error |-> err])]

(***************************************************************************)
(* SyncEngineV2: inputs                                                    *)
(***************************************************************************)
\* Source tasks as the renderer sends them (rowIndex is set from the position):
\* every combination of the fields of a task whose name is in the index.
MatchedShapes ==
    [task_number : {<<>>},
     task_title : {NameABC},
     start_date : {Null, "2025-01-01"},
     end_date : {Null, "2025-01-31"},
     reminder_rule_api : {Null, "onStart"},
     reminder_rule : {Null, "onStart"},
     executor : {Null, "Ann", "Zed"},
     involvers : {<<>>, <<"Zed">>, <<"Bob", Null, "Zed">>},
     plan_time : {NoPlan} \cup 0..MaxHalfHours]

BareTask ==
    [task_number |-> <<>>, task_title |-> NameABC, start_date |-> Null, end_date |-> Null,
     reminder_rule_api |-> Null, reminder_rule |-> Null, executor |-> Null,
     involvers |-> <<>>, plan_time |-> NoPlan]

\* The shapes the concurrent specification draws from: an unmatched task, a
\* task without fields, and a task with one field.
EngineShapes ==
    { [BareTask EXCEPT !.task_title = NameQ],
      BareTask,
      [BareTask EXCEPT !.start_date = "2025-01-01", !.end_date = "2025-01-31"] }

\* The same with a name that matches by similarity only, or not at all.
OtherNames ==
    { [s EXCEPT !.task_title = n] :
        s \in { m \in MatchedShapes : m.involvers = <<>> /\ m.reminder_rule = Null
                                        /\ m.plan_time \in {NoPlan, 3} },
        n \in {NameABD, NameQ} }

TaskShapes == MatchedShapes \cup OtherNames

\* The first and the second task of a two-task run of the single-run
\* specification.
LeaderShapes ==
    { m \in MatchedShapes : m.involvers = <<>> /\ m.reminder_rule_api = Null
                             /\ m.reminder_rule = Null /\ m.plan_time \in {NoPlan, 0, 3} }
Follower == [BareTask EXCEPT !.end_date = "2025-01-31"]

WithRows(tl) ==
    [k \in 1..Len(tl) |->
        [task_number |-> tl[k].task_number, task_title |-> tl[k].task_title,
         start_date |-> tl[k].start_date, end_date |-> tl[k].end_date,
         reminder_rule_api |-> tl[k].reminder_rule_api,
         reminder_rule |-> tl[k].reminder_rule, executor |-> tl[k].executor,
         involvers |-> tl[k].involvers, plan_time |-> tl[k].plan_time,
         rowIndex |-> k + 1]]

TaskListsOf(shapes, n) ==
    { WithRows(tl) : tl \in UNION { [1..k -> shapes] : k \in 0..n } }

\* What getConfig() returns.  loadConfig() spreads the keys of config.json over
\* the defaults, so a key such as maxConcurrentRequests is there only when the
\* file holds it.
Configs ==
    [batchSize : 1..MaxBatchSize,
     maxConcurrent : 1..MaxConfigured,
     maxConcurrentRequests : {Undefined} \cup 1..MaxWidth,
     pdt : {Null},
     projectUrl : {Null, "https://www.teambition.com/project/5f0a1b"},
     cookies : {"sid=1"}]

TaskConfigs ==
    [batchSize : {1},
     maxConcurrent : {1},
     maxConcurrentRequests : {Undefined},
     pdt : {Null, "Ann", "Zed"},
     projectUrl : {"https://www.teambition.com/project/5f0a1b"},
     cookies : {"sid=1"}]

\* One task of any shape, alone or followed by a second task.
SingleTaskLists ==
    { WithRows(<<s>>) : s \in TaskShapes } \cup { WithRows(<<s, Follower>>) : s \in LeaderShapes }

\* One run over several batches: up to MaxRunTasks tasks of the simple shapes,
\* and the run of ScenarioTasks tasks with the default batch size.
MaxRunTasks == 3
ScenarioTasks == 25
ScenarioList == WithRows([k \in 1..ScenarioTasks |-> BareTask])
RunLists == TaskListsOf(EngineShapes, MaxRunTasks) \cup {ScenarioList}
RunConfigs ==
    [batchSize : (1..MaxBatchSize) \cup {DefaultBatchSize},
     maxConcurrent : {DefaultMaxConcurrent},
     maxConcurrentRequests : {Undefined} \cup 1..MaxWidth,
     pdt : {Null},
     projectUrl : {Null, "https://www.teambition.com/project/5f0a1b",
                   "https://www.teambition.com/project/XYZ",
                   "https://www.teambition.com/organization/5f0a1b"},
     cookies : {Null, "sid=1"}]

\* One run of one task that names an executor and involvers, for the
\* specification of the rosters.
MemberLists ==
    { WithRows(<< [BareTask EXCEPT !.executor = "Ann", !.involvers = <<"Bob", Null, "Zed">>] >>) }
MemberConfigs ==
    [batchSize : {1},
     maxConcurrent : {DefaultMaxConcurrent},
     maxConcurrentRequests : {Undefined},
     pdt : {Null},
     projectUrl : {"https://www.teambition.com/project/5f0a1b"},
     cookies : {"sid=1"}]

\* The events that end a field-update request, and the planned time the
\* aggregation endpoint reports.
OkResponse == [kind |-> "response", status |-> 200, body |-> "json"]
EngineEvents ==
    { OkResponse,
      [kind |-> "response", status |-> 500, body |-> "jsonMessage"],
      NetworkError }
Recorded == {NoRecord} \cup { (h * MsPerHour) \div 2 : h \in 0..(MaxHalfHours + 1) }

(***************************************************************************)
(* SyncEngineV2: operations                                                *)
(***************************************************************************)
Active(r) == rpc[r] \in {"boot", "loop", "batch"}

BatchOfAllTheRest(r) == { t \in 1..Len(rtasks[r]) : ri[r] < t }
\* batch = tasks.slice(i, i + batchSize), as positions of `tasks`
BatchOf(r) == { t \in 1..Len(rtasks[r]) : ri[r] < t /\ t <= ri[r] + BatchSize(cfg) }

\* The microtasks left once the running one is taken off.
Rest == IF micro = <<>> THEN <<>> ELSE Tail(micro)

\* getAllMembers has not been called.  `failed` keeps the request of the
\* rosters that failed: "none" | "primary" | "link" | "members".
NoRoster == [pc |-> "none", tb |-> <<>>, dd |-> <<>>, failed |-> "none"]

EnInit ==
    /\ isRunning = FALSE
    /\ stats = FreshStats(0)
    /\ rpc = [r \in Runs |-> "idle"]
    /\ rtasks = [r \in Runs |-> <<>>]
    /\ ri = [r \in Runs |-> 0]
    /\ boot = [r \in Runs |-> 0]
    /\ sem = [r \in Runs |-> [count |-> 0, queue |-> <<>>]]
    /\ tpc = [r \in Runs |-> <<>>]
    /\ results = [r \in Runs |-> <<>>]
    /\ cur = [r \in Runs |-> <<>>]
    /\ micro = <<>>
    /\ ret = [r \in Runs |-> "none"]
    /\ sent = [r \in Runs |-> <<>>]
    /\ tout = [r \in Runs |-> <<>>]
    /\ nbatch = [r \in Runs |-> 0]
    /\ stopped = [r \in Runs |-> FALSE]
    /\ overlap = [r \in Runs |-> FALSE]
    /\ batches = [r \in Runs |-> <<>>]
    /\ apiClient = NoClient
    /\ cache = [r \in Runs |-> {}]
    /\ bclient = [r \in Runs |-> NoClient]
    /\ roster = [r \in Runs |-> NoRoster]
    /\ rmembers = [r \in Runs |-> <<>>]
    /\ rindex = [r \in Runs |-> <<>>]
    /\ idleStops = {}

\* this.cache.has(key), this.cache.get(key) and this.cache.set(key, value) on
\* the client c, the cache being ch: a Map as the set of its entries
cacheHas(ch, c, key) == \E e \in ch[c] : e[1] = key
cacheGet(ch, c, key) == (CHOOSE e \in ch[c] : e[1] = key)[2]
cacheSet(ch, c, key, value) ==
    [ch EXCEPT ![c] = { e \in @ : e[1] # key } \cup { <<key, value>> }]

clearCacheKeepsAll(client) == cache
\* this.cache.clear() of the finally block of sync(): if (this.apiClient)
\* this.apiClient.clearCache()
clearCache(client) == IF client = NoClient THEN cache ELSE [cache EXCEPT ![client] = {}]

\* semaphore.release()
release(s) ==
    IF s.queue # <<>>
    THEN [count |-> (s.count - 1) + 1, queue |-> Tail(s.queue)]
    ELSE [count |-> s.count - 1, queue |-> <<>>]

WaiterLast(s) == IF s.queue # <<>> THEN s.queue[Len(s.queue)] ELSE 0
\* const resolve = this.queue.shift(): the waiter release() resumes (0: none)
Waiter(s) == IF s.queue # <<>> THEN Head(s.queue) ELSE 0

\* A task's processSingleTask has returned: the finally of
\* processTaskWithSemaphore releases the slot, which resumes the first waiter;
\* when the last task of the batch ends, Promise.all resolves and the batch loop
\* of sync() goes on (i += batchSize).
EndTask(r, t, how) ==
    LET w == Waiter(sem[r])
        tpc1 == [tpc[r] EXCEPT ![t] = "done"]
        tpc2 == IF w # 0 THEN [tpc1 EXCEPT ![w] = "ready"] ELSE tpc1
        batchDone == \A u \in BatchOf(r) : tpc2[u] = "done"
    IN /\ sem' = [sem EXCEPT ![r] = release(sem[r])]
       /\ tpc' = [tpc EXCEPT ![r] = tpc2]
       /\ tout' = [tout EXCEPT ![r][t] = how]
       /\ micro' = Rest \o (IF w # 0 THEN << <<r, w>> >> ELSE <<>>)
                        \o (IF batchDone THEN << <<r, 0>> >> ELSE <<>>)
       /\ rpc' = IF batchDone THEN [rpc EXCEPT ![r] = "loop"] ELSE rpc
       /\ ri' = IF batchDone THEN [ri EXCEPT ![r] = ri[r] + BatchSize(cfg)] ELSE ri

\* The try block of processSingleTask goes on after field k with the results
\* res: to the next await, or to the count of the task.  log is the history of
\* the task's requests so far.
Advance(r, t, res, k, log) ==
    LET task == rtasks[r][t]
        next == AfterField(cfg, task, rmembers[r], res, k)
    IN /\ results' = [results EXCEPT ![r][t] = next.res]
       /\ IF next.pc = "finish"
          THEN /\ stats' = IF AllSuccess(next.res) THEN CountSuccess(stats)
                           ELSE CountFailed(stats, task, "partial")
               /\ EndTask(r, t, IF AllSuccess(next.res) THEN "success" ELSE "failed")
               /\ sent' = [sent EXCEPT ![r][t] = log]
          ELSE /\ tpc' = [tpc EXCEPT ![r][t] = next.pc]
               /\ sent' = [sent EXCEPT ![r][t] =
                      Append(log, [RequestOf(next.pc, 0) EXCEPT
                                      !.ids = RequestIds(task, rmembers[r], next.pc)])]
               /\ micro' = Rest
               /\ UNCHANGED <<stats, sem, tout, rpc, ri>>

\* sync(tasks) up to its first await (or to its return).
EmptyTasksNever(tl) == FALSE
\* !tasks || tasks.length === 0
EmptyTasks(tl) == tl = <<>>

RunningAsLeft == isRunning
\* this.isRunning = true, whatever stop() left in it
RunningAtStart == TRUE

Sync(r, tl) ==
    /\ micro = <<>>
    /\ rpc[r] = "idle"
    /\ \A q \in 1..(r - 1) : rpc[q] # "idle"
    /\ IF EmptyTasks(tl)
       THEN /\ rpc' = [rpc EXCEPT ![r] = "returned"]
            /\ ret' = [ret EXCEPT ![r] = "empty"]
            /\ UNCHANGED <<isRunning, stats, rtasks, boot, tpc, results, cur, sent, tout, overlap,
                           clVars>>
       ELSE /\ stats' = FreshStats(Len(tl))
            /\ rtasks' = [rtasks EXCEPT ![r] = tl]
            /\ tpc' = [tpc EXCEPT ![r] = [k \in 1..Len(tl) |-> "pending"]]
            /\ results' = [results EXCEPT ![r] = [k \in 1..Len(tl) |-> EmptyResults]]
            /\ cur' = [cur EXCEPT ![r] = [k \in 1..Len(tl) |-> 0]]
            /\ sent' = [sent EXCEPT ![r] = [k \in 1..Len(tl) |-> <<>>]]
            /\ tout' = [tout EXCEPT ![r] = [k \in 1..Len(tl) |-> "none"]]
            /\ overlap' = [overlap EXCEPT ![r] = \E q \in Runs : Active(q)]
            /\ IF ConfigValid(cfg)
               THEN /\ isRunning' = RunningAtStart
                    /\ rpc' = [rpc EXCEPT ![r] = "boot"]
                    /\ boot' = [boot EXCEPT ![r] = 1]
                    /\ apiClient' = r
                    /\ cache' = [cache EXCEPT ![r] = {}]
                    /\ bclient' = [bclient EXCEPT ![r] = r]
                    /\ UNCHANGED ret
               ELSE /\ isRunning' = FALSE
                    /\ rpc' = [rpc EXCEPT ![r] = "returned"]
                    /\ ret' = [ret EXCEPT ![r] = "error"]
                    /\ apiClient' = IF ConfigPresent(cfg) THEN r ELSE apiClient
                    /\ cache' = IF ConfigPresent(cfg) THEN [cache EXCEPT ![r] = {}]
                                 ELSE clearCache(apiClient)
                    /\ UNCHANGED <<boot, bclient>>
    /\ UNCHANGED <<cfg, ri, sem, micro, nbatch, stopped, batches, bsVars, rlVars, rqVars, mtVars, uiVars, hsVars>>

\* sync() goes on after its k-th bootstrap await: to the next call, made on
\* this.apiClient, or to the batch loop.
Proceed(r, k) ==
    IF k < Len(BootstrapCalls)
    THEN /\ boot' = [boot EXCEPT ![r] = k + 1]
         /\ bclient' = [bclient EXCEPT ![r] = apiClient]
         /\ UNCHANGED <<rpc, micro>>
    ELSE /\ rpc' = [rpc EXCEPT ![r] = "loop"]
         /\ micro' = << <<r, 0>> >>
         /\ UNCHANGED <<boot, bclient>>

\* getAllMembers, the k-th bootstrap call, has both rosters on the client c: it
\* merges them, caches the result (the cache being ch by now) and returns it to
\* sync().
MembersMerged(r, k, c, ch, tbMembers, ddMembers, how) ==
    LET merged == Spread(tbMembers, ddMembers)
    IN /\ cache' = cacheSet(ch, c, "all_members", merged)
       /\ rmembers' = [rmembers EXCEPT ![r] = merged]
       /\ roster' = [roster EXCEPT ![r] =
              [pc |-> "done", tb |-> tbMembers, dd |-> ddMembers, failed |-> how]]
       /\ Proceed(r, k)

\* getAllMembers has tbMembers and calls getDdMembers, which answers from the
\* cache or sends the link-crew request.
ExternalStart(r, k, c, ch, tbMembers) ==
    IF cacheHas(ch, c, "dd_members")
    THEN MembersMerged(r, k, c, ch, tbMembers, cacheGet(ch, c, "dd_members"), "none")
    ELSE /\ cache' = ch
         /\ roster' = [roster EXCEPT ![r] = [NoRoster EXCEPT !.pc = "link", !.tb = tbMembers]]
         /\ boot' = [boot EXCEPT ![r] = k]
         /\ bclient' = [bclient EXCEPT ![r] = c]
         /\ UNCHANGED <<rmembers, rpc, micro>>

\* sync() makes its k-th bootstrap call, getAllMembers, on the client c: the
\* cached directory, or the cached primary roster, or the request of
\* getTbMembers.
getAllMembersStart(r, k, c) ==
    IF cacheHas(cache, c, "all_members")
    THEN /\ rmembers' = [rmembers EXCEPT ![r] = cacheGet(cache, c, "all_members")]
         /\ roster' = [roster EXCEPT ![r] = [NoRoster EXCEPT !.pc = "done"]]
         /\ cache' = cache
         /\ Proceed(r, k)
    ELSE IF cacheHas(cache, c, "tb_members")
    THEN ExternalStart(r, k, c, cache, cacheGet(cache, c, "tb_members"))
    ELSE /\ roster' = [roster EXCEPT ![r] = [NoRoster EXCEPT !.pc = "tb"]]
         /\ boot' = [boot EXCEPT ![r] = k]
         /\ bclient' = [bclient EXCEPT ![r] = c]
         /\ UNCHANGED <<cache, rmembers, rpc, micro>>

\* A bootstrap await of sync() rejects: the catch block returns the error and
\* the finally block resets isRunning and clears the cache.
BootstrapFailed(r) ==
    /\ rpc' = [rpc EXCEPT ![r] = "returned"]
    /\ ret' = [ret EXCEPT ![r] = "error"]
    /\ isRunning' = FALSE
    /\ cache' = clearCache(apiClient)
    /\ UNCHANGED <<boot, micro, bclient, rmembers>>

\* One of the bootstrap awaits of sync() other than getAllMembers ends:
\* getOrganizationId, getTasklistId, getAllTasks.
BootstrapDone(r, ok) ==
    /\ micro = <<>>
    /\ rpc[r] = "boot"
    /\ BootstrapCalls[boot[r]] # "getAllMembers"
    /\ IF ok
       THEN /\ IF boot[r] < Len(BootstrapCalls) /\ BootstrapCalls[boot[r] + 1] = "getAllMembers"
               THEN /\ getAllMembersStart(r, boot[r] + 1, apiClient)
                    /\ UNCHANGED rindex
               ELSE /\ Proceed(r, boot[r])
                    /\ rindex' = IF BootstrapCalls[boot[r]] = "getAllTasks"
                                    THEN [rindex EXCEPT ![r] = RemoteIndex]
                                    ELSE rindex
                    /\ UNCHANGED <<cache, roster, rmembers>>
            /\ UNCHANGED <<isRunning, ret>>
       ELSE /\ BootstrapFailed(r)
            /\ UNCHANGED <<roster, rindex>>
    /\ UNCHANGED <<cfg, stats, rtasks, ri, sem, tpc, results, cur, sent, tout, nbatch,
                   stopped, overlap, batches, apiClient, rlVars, rqVars, mtVars, uiVars, hsVars>>

ExternalRosterStale(out, members) == members
\* What getDdMembers returns once the request of the roster has ended: the
\* object built from the payload, or {} from the catch block when the request
\* raised or its response is a failure.
ExternalRoster(out, members) == IF out.raised \/ ~out.success THEN <<>> ELSE members

\* The request of getTbMembers ends; members is the roster of the payload.
\* A failure is thrown up to sync().
RosterTb(r, ev, members) ==
    /\ micro = <<>>
    /\ rpc[r] = "boot"
    /\ BootstrapCalls[boot[r]] = "getAllMembers"
    /\ roster[r].pc = "tb"
    /\ LET out == RequestOutcome(ev)
       IN IF out.raised \/ ~out.success
          THEN /\ BootstrapFailed(r)
               /\ roster' = [roster EXCEPT ![r] = [@ EXCEPT !.pc = "failed", !.failed = "primary"]]
          ELSE /\ ExternalStart(r, boot[r], bclient[r],
                                cacheSet(cache, bclient[r], "tb_members", members), members)
               /\ UNCHANGED <<isRunning, ret>>
    /\ UNCHANGED <<cfg, stats, rtasks, ri, sem, tpc, results, cur, sent, tout, nbatch,
                   stopped, overlap, batches, apiClient, rindex, rlVars, rqVars, mtVars, uiVars, hsVars>>

\* The link-crew request of getDdMembers ends; bound tells whether the payload
\* names a bound crew.  Without one, or on a failure, getDdMembers returns {}.
RosterLink(r, ev, bound) ==
    /\ micro = <<>>
    /\ rpc[r] = "boot"
    /\ BootstrapCalls[boot[r]] = "getAllMembers"
    /\ roster[r].pc = "link"
    /\ LET out == RequestOutcome(ev)
       IN IF out.raised \/ ~out.success
          THEN MembersMerged(r, boot[r], bclient[r], cache, roster[r].tb, <<>>, "link")
          ELSE IF ~bound
          THEN MembersMerged(r, boot[r], bclient[r], cache, roster[r].tb, <<>>, "none")
          ELSE /\ roster' = [roster EXCEPT ![r].pc = "dd"]
               /\ UNCHANGED <<cache, rmembers, boot, bclient, rpc, micro>>
    /\ UNCHANGED <<cfg, isRunning, stats, rtasks, ri, sem, tpc, results, cur, ret, sent, tout,
                   nbatch, stopped, overlap, batches, apiClient, rindex, rlVars, rqVars, mtVars, uiVars, hsVars>>

\* The members request of getDdMembers ends; members is the roster of the
\* payload, cached when the request succeeded.
RosterDd(r, ev, members) ==
    /\ micro = <<>>
    /\ rpc[r] = "boot"
    /\ BootstrapCalls[boot[r]] = "getAllMembers"
    /\ roster[r].pc = "dd"
    /\ LET out == RequestOutcome(ev)
           ddMembers == ExternalRoster(out, members)
       IN IF out.raised \/ ~out.success
          THEN MembersMerged(r, boot[r], bclient[r], cache, roster[r].tb, ddMembers, "members")
          ELSE MembersMerged(r, boot[r], bclient[r],
                             cacheSet(cache, bclient[r], "dd_members", ddMembers),
                             roster[r].tb, ddMembers, "none")
    /\ UNCHANGED <<cfg, isRunning, stats, rtasks, ri, sem, tpc, results, cur, ret, sent, tout,
                   nbatch, stopped, overlap, batches, apiClient, rindex, rlVars, rqVars, mtVars, uiVars, hsVars>>

\* One turn of the batch loop of sync(): the loop ends, or breaks on
\* !this.isRunning, or processBatch starts the next batch, whose tasks call
\* semaphore.acquire() in input order.
BatchLoop(r) ==
    /\ micro # <<>> /\ Head(micro) = <<r, 0>>
    /\ rpc[r] = "loop"
    /\ IF ri[r] >= Len(rtasks[r]) \/ ~isRunning
       THEN /\ rpc' = [rpc EXCEPT ![r] = "returned"]
            /\ ret' = [ret EXCEPT ![r] = "ok"]
            /\ isRunning' = FALSE
            /\ micro' = Tail(micro)
            /\ cache' = clearCache(apiClient)
            /\ UNCHANGED <<sem, tpc, nbatch, batches>>
       ELSE LET batch == BatchOf(r)
                width == SemaphoreWidth(cfg)
                admitted == { t \in batch : t - ri[r] <= width }
                first == [k \in 1..Cardinality(admitted) |-> <<r, ri[r] + k>>]
                waiting == [k \in 1..(Cardinality(batch) - Cardinality(admitted)) |->
                               ri[r] + Cardinality(admitted) + k]
            IN /\ rpc' = [rpc EXCEPT ![r] = "batch"]
               /\ sem' = [sem EXCEPT ![r] = [count |-> Cardinality(admitted), queue |-> waiting]]
               /\ tpc' = [tpc EXCEPT ![r] = [t \in 1..Len(rtasks[r]) |->
                              IF t \in admitted THEN "ready"
                              ELSE IF t \in batch THEN "queued" ELSE tpc[r][t]]]
               /\ micro' = Tail(micro) \o first
               /\ nbatch' = [nbatch EXCEPT ![r] = nbatch[r] + 1]
               /\ batches' = [batches EXCEPT ![r] =
                      Append(@, [k \in 1..Cardinality(batch) |-> ri[r] + k])]
               /\ UNCHANGED <<ret, isRunning, cache>>
    /\ UNCHANGED <<cfg, stats, rtasks, ri, boot, results, cur, sent, tout, stopped, overlap,
                   apiClient, bclient, bsVars, rlVars, rqVars, mtVars, uiVars, hsVars>>

TaskStartIgnoringStop(r, t) ==
    /\ micro # <<>> /\ Head(micro) = <<r, t>>
    /\ t # 0
    /\ tpc[r][t] = "ready"
    /\ LET taskId == MatchTask(TaskName(rtasks[r][t]), rindex[r])
       IN /\ rindex' = [rindex EXCEPT ![r] = IndexAfterMatch(rindex[r], taskId)]
          /\ IF taskId = Null
             THEN /\ stats' = CountSkipped(stats)
                  /\ EndTask(r, t, "skipped")
                  /\ UNCHANGED <<results, sent>>
             ELSE Advance(r, t, EmptyResults, 0, <<>>)
    /\ UNCHANGED <<cfg, isRunning, rtasks, boot, cur, ret, nbatch, stopped, overlap,
                   batches, clVars, roster, rmembers, rlVars, rqVars, mtVars, uiVars, hsVars>>
\* A task holds its slot and processSingleTask runs up to its first await.
TaskStart(r, t) ==
    /\ micro # <<>> /\ Head(micro) = <<r, t>>
    /\ t # 0
    /\ tpc[r][t] = "ready"
    /\ IF ~isRunning
       THEN /\ EndTask(r, t, "notrun")
            /\ UNCHANGED <<stats, results, sent, rindex>>
       ELSE LET taskId == MatchTask(TaskName(rtasks[r][t]), rindex[r])
            IN /\ rindex' = [rindex EXCEPT ![r] = IndexAfterMatch(rindex[r], taskId)]
               /\ IF taskId = Null
                  THEN /\ stats' = CountSkipped(stats)
                       /\ EndTask(r, t, "skipped")
                       /\ UNCHANGED <<results, sent>>
                  ELSE Advance(r, t, EmptyResults, 0, <<>>)
    /\ UNCHANGED <<cfg, isRunning, rtasks, boot, cur, ret, nbatch, stopped, overlap,
                   batches, clVars, roster, rmembers, rlVars, rqVars, mtVars, uiVars, hsVars>>

\* results after the request of the field at pc ended with `status`
FieldRecorded(task, res, pc, status) ==
    CASE pc = "dates" ->
            [res EXCEPT !["startDate"] = IF task.start_date # Null THEN status ELSE @,
                        !["dueDate"] = IF task.end_date # Null THEN status ELSE @]
      [] pc = "reminder" -> [res EXCEPT !["reminder"] = status]
      [] pc = "executor" -> [res EXCEPT !["executor"] = status]
      [] pc = "involvers" -> [res EXCEPT !["involvers"] = status]
      [] pc = "planPost" -> [res EXCEPT !["planTime"] = status]

\* The request of updateTaskDates, setTaskReminder, setTaskExecutor,
\* addTaskInvolvers or the POST of updateTaskPlanTime ends.
FieldDone(r, t, ev) ==
    /\ micro = <<>>
    /\ rpc[r] = "batch"
    /\ t \in 1..Len(rtasks[r])
    /\ tpc[r][t] \in Awaiting
    /\ LET out == RequestOutcome(ev)
           task == rtasks[r][t]
       IN IF out.raised
          THEN /\ stats' = CountFailed(stats, task, out.error)
               /\ EndTask(r, t, "raised")
               /\ sent' = [sent EXCEPT ![r][t] = Answered(@, "raise")]
               /\ UNCHANGED results
          ELSE Advance(r, t, FieldRecorded(task, results[r][t], tpc[r][t], StatusOf(out.success)),
                       PhaseNo(tpc[r][t]), Answered(sent[r][t], OutcomeOf(out)))
    /\ UNCHANGED <<cfg, isRunning, rtasks, boot, cur, ret, nbatch, stopped, overlap,
                   batches, clVars, bsVars, rlVars, rqVars, mtVars, uiVars, hsVars>>

\* The GET of updateTaskPlanTime ends; rec is the planned time the payload
\* carries.  A failed read leaves currentPlannedTime = 0.
PlanReadDone(r, t, ev, rec) ==
    /\ micro = <<>>
    /\ rpc[r] = "batch"
    /\ t \in 1..Len(rtasks[r])
    /\ tpc[r][t] = "planGet"
    /\ LET out == RequestOutcome(ev)
           task == rtasks[r][t]
           currentPlannedTime == CurrentPlannedTime(out, rec)
           planTimeMs == PlanTimeMs(task)
       IN /\ cur' = [cur EXCEPT ![r][t] = currentPlannedTime]
          /\ IF TopUpNeeded(currentPlannedTime, planTimeMs)
             THEN /\ tpc' = [tpc EXCEPT ![r][t] = "planPost"]
                  /\ sent' = [sent EXCEPT ![r][t] =
                         Append(Reported(@, OutcomeOf(out), rec),
                                RequestOf("planPost", planTimeMs - currentPlannedTime))]
                  /\ UNCHANGED <<results, stats, sem, tout, micro, rpc, ri>>
             ELSE Advance(r, t, [results[r][t] EXCEPT !["planTime"] = 200], 5,
                          Reported(sent[r][t], OutcomeOf(out), rec))
    /\ UNCHANGED <<cfg, isRunning, rtasks, boot, ret, nbatch, stopped, overlap,
                   batches, clVars, bsVars, rlVars, rqVars, mtVars, uiVars, hsVars>>

\* stop()
Stop ==
    /\ micro = <<>>
    /\ IF isRunning
       THEN /\ isRunning' = FALSE
            /\ stopped' = [r \in Runs |-> stopped[r] \/ Active(r)]
       ELSE UNCHANGED <<isRunning, stopped>>
    /\ idleStops' = IF \A r \in Runs : ~Active(r)
                    THEN idleStops \cup {Cardinality({r \in Runs : rpc[r] # "idle"})}
                    ELSE idleStops
    /\ UNCHANGED <<cfg, stats, rpc, rtasks, ri, boot, sem, tpc, results, cur, micro, ret,
                   sent, tout, nbatch, overlap, batches, clVars, bsVars, rlVars, rqVars, mtVars, uiVars>>

(***************************************************************************)
(* The task matcher and calculateSimilarity on their own                   *)
(***************************************************************************)
\* Names over a small alphabet, up to MaxNameLen characters, and a few more:
\* with upper-case letters, and of three characters.
MaxNameLen == 2
MaxIndex == 2
LowerNames == UNION { [1..n -> {"a", "b"}] : n \in 0..MaxNameLen }
MixedNames == { <<"A">>, <<"A", "b">>, <<"a", "B">>, <<"A", "b", "a">>, <<"a", "b", "a">> }
IndexNames == LowerNames \cup MixedNames
\* the composed name of a source task is never empty (the title is mandatory)
SourceNames == IndexNames \ { <<>> }
\* allTasks: the ids are the keys of the object, so they differ
IndexIds == <<"t1", "t2", "t3", "t4">>
Indexes ==
    { [k \in 1..Len(names) |-> [id |-> IndexIds[k], name |-> names[k]]] :
        names \in UNION { [1..m -> IndexNames] : m \in 0..MaxIndex } }
NoDist == [ab |-> -1, ba |-> -1, aa |-> -1, bb |-> -1, simaa |-> ScoreZero, simbb |-> ScoreZero]

MtInit ==
    /\ mpc = "input"
    /\ mname = NameABC
    /\ mindex = <<>>
    /\ mid = Null
    /\ mdist = NoDist

\* The two matching passes of processSingleTask run on taskName and allTasks.
Match ==
    /\ mpc = "input"
    /\ mid' = MatchTask(mname, mindex)
    /\ mpc' = "matched"
    /\ UNCHANGED <<mname, mindex, mdist, rlVars, rqVars, enVars, clVars, bsVars, uiVars, hsVars>>

\* calculateSimilarity runs on taskName and the name of entry k, in both
\* orders, and on each of the two with itself.
Compare(k) ==
    /\ mpc = "matched"
    /\ k \in 1..Len(mindex)
    /\ LET a == mname
           b == mindex[k].name
       IN mdist' = [ab |-> distance(toLowerCase(a), toLowerCase(b)),
                    ba |-> distance(toLowerCase(b), toLowerCase(a)),
                    aa |-> distance(toLowerCase(a), toLowerCase(a)),
                    bb |-> distance(toLowerCase(b), toLowerCase(b)),
                    simaa |-> calculateSimilarity(a, a),
                    simbb |-> calculateSimilarity(b, b)]
    /\ mpc' = "compared"
    /\ UNCHANGED <<mname, mindex, mid, rlVars, rqVars, enVars, clVars, bsVars, uiVars, hsVars>>

(***************************************************************************)
(* The renderer (src/src/renderer/uiManager.ts): UIManager.startSync and    *)
(* stopSync, and the start-sync and stop-sync handlers of the main process. *)
(* The renderer runs on its own event loop; an invocation of startSync is   *)
(* cut at each of its awaits.                                               *)
(***************************************************************************)
Clicks == 1..NumClicks
UiOutcomes == {"ok", "refused", "throws"}

UiInit ==
    /\ isSyncing = FALSE
    /\ upc = [u \in Clicks |-> "idle"]
    /\ ustops = [u \in Clicks |-> 0]
    /\ bstops = 0
    /\ msync = [u \in Clicks |-> "none"]
    /\ raced = FALSE

\* stopSync() up to its await: n calls of it send n stop-sync requests
stopSync(u, n) == [ustops EXCEPT ![u] = @ + n]

\* startSync() from its call to `await validateConfig()`: the isSyncing guard
\* returns before the try block, so no finally runs for a rejected call.
startSync(u) ==
    /\ upc[u] = "idle"
    /\ upc' = [upc EXCEPT ![u] = IF isSyncing THEN "rejected" ELSE "validate"]
    /\ raced' = (raced \/ (~isSyncing /\ \E v \in Clicks : upc[v] = "validate"))
    /\ UNCHANGED <<isSyncing, ustops, bstops, msync,
                   rlVars, rqVars, enVars, clVars, bsVars, mtVars, hsVars>>

\* validateConfig() has answered: an invalid configuration, no selected file
\* and no selected sheet return from inside the try block, so the finally
\* block calls stopSync(); otherwise isSyncing is set and readExcel() awaited.
ValidateDone(u, outcome) ==
    /\ upc[u] = "validate"
    /\ IF outcome = "ok"
       THEN /\ isSyncing' = TRUE
            /\ upc' = [upc EXCEPT ![u] = "read"]
            /\ UNCHANGED ustops
       ELSE /\ upc' = [upc EXCEPT ![u] = "finished"]
            /\ ustops' = stopSync(u, 1)
            /\ UNCHANGED isSyncing
    /\ UNCHANGED <<bstops, msync, raced, rlVars, rqVars, enVars, clVars, bsVars, mtVars, hsVars>>

\* readExcel() has ended: missing columns and an empty task list call
\* stopSync() and return, and the finally block calls it once more.
ReadDone(u, outcome) ==
    /\ upc[u] = "read"
    /\ upc' = [upc EXCEPT ![u] = IF outcome = "ok" THEN "initialize" ELSE "finished"]
    /\ ustops' = CASE outcome = "ok" -> ustops
                   [] outcome = "refused" -> stopSync(u, 2)
                   [] outcome = "throws" -> stopSync(u, 1)
    /\ UNCHANGED <<isSyncing, bstops, msync,
                   raced, rlVars, rqVars, enVars, clVars, bsVars, mtVars, hsVars>>

\* apiClient.initialize() has ended: on success the start-sync request is sent.
InitializeDone(u, outcome) ==
    /\ upc[u] = "initialize"
    /\ upc' = [upc EXCEPT ![u] = IF outcome = "ok" THEN "sync" ELSE "finished"]
    /\ ustops' = CASE outcome = "ok" -> ustops
                   [] outcome = "refused" -> stopSync(u, 2)
                   [] outcome = "throws" -> stopSync(u, 1)
    /\ msync' = [msync EXCEPT ![u] = IF outcome = "ok" THEN "sent" ELSE @]
    /\ UNCHANGED <<isSyncing, bstops, raced, rlVars, rqVars, enVars, clVars, bsVars, mtVars, hsVars>>

\* ipcMain.handle('start-sync'): the handler calls syncEngineInstance.sync(tasks)
StartSyncHandler(u) ==
    /\ msync[u] = "sent"
    /\ msync' = [msync EXCEPT ![u] = "running"]
    /\ UNCHANGED <<isSyncing, upc, ustops, bstops,
                   raced, rlVars, rqVars, enVars, clVars, bsVars, mtVars, hsVars>>

\* the sync() call of the handler returns and its result is sent back
StartSyncReturns(u) ==
    /\ msync[u] = "running"
    /\ msync' = [msync EXCEPT ![u] = "replied"]
    /\ UNCHANGED <<isSyncing, upc, ustops, bstops,
                   raced, rlVars, rqVars, enVars, clVars, bsVars, mtVars, hsVars>>

\* startSync() resumes with syncResult, logs it, and its finally block calls
\* stopSync().
SyncResult(u) ==
    /\ upc[u] = "sync"
    /\ msync[u] = "replied"
    /\ upc' = [upc EXCEPT ![u] = "finished"]
    /\ ustops' = stopSync(u, 1)
    /\ UNCHANGED <<isSyncing, bstops, msync,
                   raced, rlVars, rqVars, enVars, clVars, bsVars, mtVars, hsVars>>

\* stopSync() after its await: the stop-sync request has been answered
StopSyncDone(u) ==
    /\ ustops[u] > 0
    /\ ustops' = [ustops EXCEPT ![u] = @ - 1]
    /\ isSyncing' = FALSE
    /\ UNCHANGED <<upc, bstops, msync, raced, rlVars, rqVars, enVars, clVars, bsVars, mtVars, hsVars>>

\* a click on the stop button, which updateSyncButtons() enables while
\* isSyncing is true, calls stopSync()
StopClick ==
    /\ isSyncing
    /\ bstops < MaxStopClicks
    /\ bstops' = bstops + 1
    /\ UNCHANGED <<isSyncing, upc, ustops, msync,
                   raced, rlVars, rqVars, enVars, clVars, bsVars, mtVars, hsVars>>

StopClickDone ==
    /\ bstops > 0
    /\ bstops' = bstops - 1
    /\ isSyncing' = FALSE
    /\ UNCHANGED <<upc, ustops, msync, raced, rlVars, rqVars, enVars, clVars, bsVars, mtVars, hsVars>>

(***************************************************************************)
(* Properties                                                              *)
(***************************************************************************)
Ops(log) == { log[k].op : k \in 1..Len(log) }
Posts(log) == SelectSeq(log, LAMBDA e : e.op = "postPlanTime")
Reads(log) == SelectSeq(log, LAMBDA e : e.op = "getPlanTime")
Matched(task) == MatchTask(TaskName(task), RemoteIndex) # Null
TaskIds(r) == 1..Len(rtasks[r])
\* the tasks of a run whose processing has ended after they were matched
Ended(r) == { t \in TaskIds(r) : tpc[r][t] = "done" /\ tout[r][t] # "notrun"
                                  /\ Matched(rtasks[r][t]) }

\* C1: a sync() call made while an earlier call has not returned is rejected at
\* once: it starts no bootstrap, and leaves stats and isRunning as they are.
C1_OverlappingSyncRejected ==
    [][\A r \in Runs :
          (rpc[r] = "idle" /\ rpc'[r] # "idle" /\ \E q \in Runs : Active(q))
              => (rpc'[r] = "returned" /\ stats' = stats /\ isRunning' = isRunning)]_vars

\* C2: never more tasks of a run hold a semaphore slot than the configured
\* maxConcurrent.
InFlight(r) == { t \in TaskIds(r) : tpc[r][t] \in {"ready", "planGet"} \cup Awaiting }
C2_InFlightWithinConfigured ==
    \A r \in Runs : Cardinality(InFlight(r)) <= cfg.maxConcurrent

\* C3: no more than maxRequests acquires are granted inside any interval of
\* length timeWindow; the grant number i + maxRequests comes no earlier than
\* timeWindow after grant number i.
C3_RateWithinWindow ==
    /\ \A a \in 0..MaxTime :
          Cardinality({k \in 1..Len(grants) : a <= grants[k] /\ grants[k] < a + TimeWindow})
              <= MaxRequests
    /\ \A i, j \in 1..Len(grants) :
          j = i + MaxRequests => grants[j] - grants[i] >= TimeWindow
\* the grant after a full window came exactly timeWindow after the first one
C3_Witness ==
    /\ Len(grants) > MaxRequests
    /\ grants[MaxRequests + 1] = grants[1] + TimeWindow
    /\ \A k \in 1..MaxRequests : grants[k] = grants[1]

\* C4: a call that ends with a transport failure has made 3 attempts.
C4_TransportFailureRetried ==
    \A p \in Calls :
        (rqpc[p] = "rejected" /\ rqresp[p].kind = "error")
            => (rqtries[p] = maxRetries /\ rqhttp[p] = maxRetries)

\* C5: a call answered with a non-2xx status has made exactly one HTTP attempt,
\* waited for no backoff, and has resolved with a failure that carries the status.
C5_Non2xxNotRetried ==
    \A p \in Calls :
        (rqresp[p].kind = "response"
            /\ ~(rqresp[p].status >= 200 /\ rqresp[p].status <= 299))
        => /\ rqpc[p] = "resolved"
           /\ rqhttp[p] = 1
           /\ rqtries[p] = 1
           /\ rqwaits[p] = <<>>
           /\ rqres[p].success = FALSE
           /\ rqres[p].code = rqresp[p].status
C5_Witness ==
    \E p \in Calls : rqpc[p] = "resolved" /\ rqresp[p].status = 404 /\ rqres[p].code = 404

\* ---- one run, every task shape (SpecTask)
\* a request of the task other than the planned-time read ended in a failure
UpdateFailed(r, t) ==
    \E k \in 1..Len(sent[r][t]) :
        sent[r][t][k].op # "getPlanTime" /\ sent[r][t][k].outcome \in {"fail", "raise"}
UpdateRaised(r, t) ==
    \E k \in 1..Len(sent[r][t]) :
        sent[r][t][k].op # "getPlanTime" /\ sent[r][t][k].outcome = "raise"
\* the task has planned hours and lacks a prerequisite of the planned-effort update
PlanBlocked(task) ==
    /\ task.plan_time # NoPlan
    /\ \/ task.executor = Null
       \/ getUserIdByName(task.executor, Directory) = Null
       \/ task.start_date = Null
       \/ task.end_date = Null
       \/ cfg.pdt = Null
       \/ getUserIdByName(cfg.pdt, Directory) = Null
FieldFailed(r, t) == UpdateFailed(r, t) \/ PlanBlocked(rtasks[r][t])
RECURSIVE FailedRows(_, _)
FailedRows(r, t) ==
    IF t > Len(rtasks[r]) THEN <<>>
    ELSE (IF t \in Ended(r) /\ FieldFailed(r, t)
          THEN << <<rtasks[r][t].rowIndex, TaskName(rtasks[r][t])>> >> ELSE <<>>)
         \o FailedRows(r, t + 1)

\* C6: success counts the matched tasks all of whose attempted fields succeeded,
\* failed counts those with a failed field, and failedTasks holds exactly the
\* latter, with row and composed name.
C6_OutcomeByAttemptedFields ==
    /\ stats.success = Cardinality({t \in Ended(1) : ~FieldFailed(1, t)})
    /\ stats.failed = Cardinality({t \in Ended(1) : FieldFailed(1, t)})
    /\ [k \in 1..Len(stats.failedTasks) |->
            <<stats.failedTasks[k].row, stats.failedTasks[k].task_name>>] = FailedRows(1, 1)
\* a schedule update that succeeded and an executor update that failed
C6_Witness ==
    \E t \in Ended(1) :
        /\ \E k \in 1..Len(sent[1][t]) :
              sent[1][t][k].op = "updateTaskDates" /\ sent[1][t][k].outcome = "ok"
        /\ \E k \in 1..Len(sent[1][t]) :
              sent[1][t][k].op = "setTaskExecutor" /\ sent[1][t][k].outcome = "fail"
        /\ stats.failed = 1 /\ stats.success = 0
        /\ stats.failedTasks[1].row = rtasks[1][t].rowIndex

\* the requests the populated fields of a task call for
PopulatedOps(task) ==
    { PhaseName(k) : k \in {j \in 1..5 : Populated(cfg, task, Directory, j)
                                           /\ (j = 5 => ~PlanBlocked(task))} }
OpOf(ph) == RequestOf(ph, 0).op
AllPopulatedAttempted(r, t) ==
    \A ph \in PopulatedOps(rtasks[r][t]) : OpOf(ph) \in Ops(sent[r][t])

C8_TopUpIsTheDifference ==
    \A t \in TaskIds(1) :
        /\ \A k \in 1..Len(sent[1][t]) :
              sent[1][t][k].op = "postPlanTime" => sent[1][t][k].planTime > 0
        /\ (Reads(sent[1][t]) # <<>> /\ Reads(sent[1][t])[1].outcome = "ok") =>
              LET rec == Reads(sent[1][t])[1].planTime
                  c == IF rec = NoRecord THEN 0 ELSE rec
                  r == (rtasks[1][t].plan_time * MsPerHour) \div 2
                  posts == Posts(sent[1][t])
              IN /\ Len(Reads(sent[1][t])) = 1
                 /\ IF r > c
                    THEN Len(posts) = 1 /\ posts[1].planTime = r - c
                    ELSE posts = <<>> /\ (tpc[1][t] = "done" => results[1][t]["planTime"] = 200)
\* recorded 1h, requested 1.5h: one entry of 0.5h
C8_Witness ==
    \E t \in TaskIds(1) :
        /\ Reads(sent[1][t]) # <<>>
        /\ Reads(sent[1][t])[1].outcome = "ok"
        /\ Reads(sent[1][t])[1].planTime = MsPerHour
        /\ rtasks[1][t].plan_time = 3
        /\ Len(Posts(sent[1][t])) = 1
        /\ Posts(sent[1][t])[1].planTime = MsPerHour \div 2

\* C9: a matched task with planned hours and a missing prerequisite issues
\* neither the read nor the write of the planned effort, gets planTime = 500
\* when its fields are through, and counts as failed.
C9_MissingPrerequisiteFails ==
    \A t \in TaskIds(1) :
        PlanBlocked(rtasks[1][t]) =>
            /\ "getPlanTime" \notin Ops(sent[1][t])
            /\ "postPlanTime" \notin Ops(sent[1][t])
            /\ t \in Ended(1) =>
                  /\ ~UpdateRaised(1, t) => results[1][t]["planTime"] = 500
                  /\ \E k \in 1..Len(stats.failedTasks) :
                        stats.failedTasks[k].row = rtasks[1][t].rowIndex
                  /\ stats.success = Cardinality({u \in Ended(1) \ {t} : ~FieldFailed(1, u)})
\* planned hours with an executor name that resolves to no member
C9_Witness ==
    \E t \in Ended(1) :
        /\ rtasks[1][t].plan_time = 3
        /\ rtasks[1][t].executor = "Zed"
        /\ rtasks[1][t].start_date # Null /\ rtasks[1][t].end_date # Null
        /\ cfg.pdt = "Ann"
        /\ results[1][t]["planTime"] = 500
        /\ results[1][t]["startDate"] = 200
        /\ stats.failed = 1

\* C10: once stop() was called during a run, that run starts no further batch.
C10_NoBatchAfterStop ==
    [][\A r \in Runs : stopped[r] => nbatch'[r] = nbatch[r]]_vars

\* ---- one run over several batches (SpecRun)
Ceil(n, b) == (n + b - 1) \div b
\* the batches of n tasks with batch size b: sizes b, ..., b, remainder
ExpectedBatches(n, b) ==
    [k \in 1..Ceil(n, b) |->
        [j \in 1..(IF k * b <= n THEN b ELSE n - (k - 1) * b) |-> (k - 1) * b + j]]
CountOf(r, outs) == Cardinality({t \in TaskIds(r) : tout[r][t] \in outs})

\* C11: the batches started so far are the first ones of the partition of the
\* input into ceil(n/b) batches in order; a batch starts only when every task of
\* the batches before it has finished and no task beyond it has started; a run
\* that is not stopped returns after all ceil(n/b) batches with stats.total = n.
C11_BatchesPartitionInOrder ==
    LET n == Len(rtasks[1])
        b == cfg.batchSize
        exp == ExpectedBatches(n, b)
        started == batches[1]
    IN /\ Len(started) <= Len(exp)
       /\ \A k \in 1..Len(started) : started[k] = exp[k]
       /\ \A k \in 1..Len(started) : k < Len(started) =>
             \A j \in 1..Len(started[k]) : tpc[1][started[k][j]] = "done"
       /\ \A k \in 1..Len(exp) : k > Len(started) =>
             \A j \in 1..Len(exp[k]) : tpc[1][exp[k][j]] = "pending"
       /\ (ret[1] = "ok" /\ ~stopped[1]) => (started = exp /\ stats.total = n)
\* 25 tasks with batch size 20: two batches, of 20 and of 5, and total = 25
C11_Witness ==
    /\ ret[1] = "ok"
    /\ Len(rtasks[1]) = 25
    /\ cfg.batchSize = 20
    /\ Len(batches[1]) = 2
    /\ Len(batches[1][1]) = 20
    /\ Len(batches[1][2]) = 5
    /\ stats.total = 25

\* the configuration lacks the project reference or the credential, or its
\* project reference holds no project id
ConfigUnusable ==
    \/ cfg.projectUrl = Null
    \/ cfg.cookies = Null
    \/ cfg.projectUrl \in {"https://www.teambition.com/project/XYZ",
                           "https://www.teambition.com/organization/5f0a1b"}
\* C12: a run gets to its batches only with a usable configuration and after
\* its four bootstrap calls succeeded; otherwise sync() returns an error, and
\* then no task was started, no request was issued, and the counters are zero.
C12_BootstrapFailureAborts ==
    /\ (rpc[1] \in {"loop", "batch"} \/ ret[1] = "ok") => (~ConfigUnusable /\ boot[1] = 4)
    /\ (ConfigUnusable /\ rpc[1] # "idle" /\ ret[1] # "empty") => ret[1] = "error"
    /\ rpc[1] = "returned" => ret[1] \in {"ok", "error", "empty"}
    /\ ret[1] = "error" =>
          /\ stats.success = 0 /\ stats.failed = 0 /\ stats.skipped = 0
          /\ stats.failedTasks = <<>>
          /\ batches[1] = <<>>
          /\ \A t \in TaskIds(1) : tpc[1][t] = "pending" /\ sent[1][t] = <<>>
\* the member roster call failed
C12_Witness ==
    /\ ret[1] = "error"
    /\ boot[1] = 3
    /\ rtasks[1] # <<>>
    /\ stats.total = Len(rtasks[1])

\* C13: when the sync() call that started a run has returned, isRunning is false
\* and the cache of the engine's client is empty; isRunning is true only while
\* the run is under way.
C13_ReturnResetsRunningAndCache ==
    /\ (rpc[1] = "returned" /\ ret[1] # "empty") =>
          /\ ~isRunning
          /\ apiClient # NoClient => cache[apiClient] = {}
    /\ isRunning => Active(1)
\* a run that was stopped after its bootstrap had filled the cache
C13_Witness ==
    /\ rpc[1] = "returned"
    /\ ret[1] = "ok"
    /\ stopped[1]
    /\ boot[1] = 4
    /\ apiClient = 1

\* C14: in a run that is not stopped every task that has ended is counted in
\* exactly one counter, whatever the order in which the tasks of a batch end, and
\* at return the three counters add up to total.
C14_EveryTaskCountedOnce ==
    ~stopped[1] =>
        /\ stats.success = CountOf(1, {"success"})
        /\ stats.failed = CountOf(1, {"failed", "raised"})
        /\ stats.skipped = CountOf(1, {"skipped"})
        /\ Len(stats.failedTasks) = stats.failed
        /\ ret[1] = "ok" =>
              /\ \A t \in TaskIds(1) : tout[1][t] \in {"success", "failed", "raised", "skipped"}
              /\ stats.success + stats.failed + stats.skipped = stats.total
              /\ stats.total = Len(rtasks[1])
\* three tasks of one batch that ran side by side, one per counter
C14_Witness ==
    /\ ret[1] = "ok"
    /\ ~stopped[1]
    /\ Len(batches[1]) = 1
    /\ stats.total = 3
    /\ stats.success = 1 /\ stats.failed = 1 /\ stats.skipped = 1
    /\ cfg.maxConcurrentRequests = Undefined

\* ---- the matcher on its own (SpecMatch)
ExactEntries == { k \in 1..Len(mindex) : mindex[k].name = mname }
\* the edit distance, by its recurrence on the heads of the two strings
RECURSIVE Lev(_, _)
Lev(a, b) ==
    IF a = <<>> THEN Len(b)
    ELSE IF b = <<>> THEN Len(a)
    ELSE IF Head(a) = Head(b) THEN Lev(Tail(a), Tail(b))
    ELSE 1 + Min3(Lev(Tail(a), b), Lev(a, Tail(b)), Lev(Tail(a), Tail(b)))
Lower(str) == [k \in 1..Len(str) |->
                  IF str[k] = "A" THEN "a" ELSE IF str[k] = "B" THEN "b" ELSE str[k]]
\* similarity of taskName and entry k as the fraction 1 - SimD(k) / SimM(k)
SimD(k) == Lev(Lower(mname), Lower(mindex[k].name))
SimM(k) == Max2(Len(mname), Len(mindex[k].name))
\* similarity(k) > 1/2, and similarity(j) <= similarity(k)
AboveHalf(k) == 2 * SimD(k) < SimM(k)
NotBetter(j, k) == SimD(k) * SimM(j) <= SimD(j) * SimM(k)
EntryOf(id) == CHOOSE k \in 1..Len(mindex) : mindex[k].id = id

\* C15: with an entry whose name equals the composed name, the matcher returns
\* the first such entry.
C15_FirstExactMatchWins ==
    (mpc # "input" /\ ExactEntries # {}) =>
        mid = mindex[CHOOSE k \in ExactEntries : \A j \in ExactEntries : k <= j].id
\* the exact entry is the second one, after an entry that differs by case only
C15_Witness ==
    /\ mpc = "matched"
    /\ Len(mindex) = 2
    /\ ExactEntries = {2}
    /\ Lower(mindex[1].name) = Lower(mname)
    /\ mid = "t2"

\* C16: without an exact match the matcher returns an entry of maximal
\* similarity if that similarity is above 1/2, and nothing otherwise.
C16_BestFuzzyAboveHalf ==
    (mpc # "input" /\ ExactEntries = {}) =>
        IF \E k \in 1..Len(mindex) : AboveHalf(k)
        THEN /\ mid # Null
             /\ AboveHalf(EntryOf(mid))
             /\ \A j \in 1..Len(mindex) : NotBetter(j, EntryOf(mid))
        ELSE mid = Null
\* an entry at exactly 1/2 is passed over
C16_Witness ==
    /\ mpc = "matched"
    /\ ExactEntries = {}
    /\ Len(mindex) = 2
    /\ 2 * SimD(1) = SimM(1)
    /\ 2 * SimD(2) > SimM(2)
    /\ mid = Null

\* C17: the distance of the table is the same in both orders and is 0 for a
\* string and itself, and the similarity of a string and itself is 1.
C17_DistanceSymmetric ==
    mpc = "compared" =>
        /\ mdist.ab = mdist.ba
        /\ mdist.aa = 0
        /\ mdist.bb = 0
        /\ mdist.simaa = [d |-> 0, m |-> 1]
        /\ mdist.simbb = [d |-> 0, m |-> 1]
\* two strings of different lengths at distance 2, and the empty string
C17_Witness ==
    /\ mpc = "compared"
    /\ mdist.ab = 2
    /\ \E k \in 1..Len(mindex) : mindex[k].name = <<>>
    /\ mdist.bb = 0

\* C18: a task the matcher cannot resolve issues no request, records no field,
\* is in no entry of failedTasks and ends as skipped; skipped counts exactly
\* these tasks, once each.
C18_UnmatchedSkippedOnce ==
    /\ \A t \in TaskIds(1) :
          ~Matched(rtasks[1][t]) =>
              /\ sent[1][t] = <<>>
              /\ results[1][t] = EmptyResults
              /\ tout[1][t] \in {"none", "skipped", "notrun"}
              /\ \A k \in 1..Len(stats.failedTasks) :
                    stats.failedTasks[k].row # rtasks[1][t].rowIndex
    /\ stats.skipped = Cardinality({t \in TaskIds(1) :
                           tpc[1][t] = "done" /\ tout[1][t] # "notrun"
                               /\ ~Matched(rtasks[1][t])})
    /\ stats.success + stats.failed = Cardinality(Ended(1))
\* two unmatched tasks and a matched one
C18_Witness ==
    /\ ret[1] = "ok"
    /\ stats.skipped = 2
    /\ stats.success = 1
    /\ stats.total = 3

\* ---- one run, every task shape (SpecTask)
\* the ingestion step sets reminder_rule_api and never reminder_rule
Ingested(task) == task.reminder_rule = Null
Requests(log, op) == SelectSeq(log, LAMBDA e : e.op = op)

\* C19: a matched task from the ingestion step with a reminder rule issues
\* exactly one set-reminder request (unless an earlier update raised), and a
\* task without a reminder rule issues none.
C19_ReminderSentOnce ==
    \A t \in Ended(1) :
        LET task == rtasks[1][t]
            reminders == Requests(sent[1][t], "setTaskReminder")
        IN Ingested(task) =>
              /\ (task.reminder_rule_api # Null /\ ~UpdateRaised(1, t))
                    => Len(reminders) = 1
              /\ task.reminder_rule_api = Null => reminders = <<>>

\* the ids of the participant names that are names of the member directory
RECURSIVE ResolvedIds(_)
ResolvedIds(names) ==
    IF names = <<>> THEN <<>>
    ELSE LET hits == { k \in 1..Len(Directory) : Directory[k].name = Head(names) }
         IN (IF hits = {} \/ Head(names) = Null THEN <<>>
             ELSE << Directory[CHOOSE k \in hits : \A j \in hits : k <= j].userId >>)
            \o ResolvedIds(Tail(names))
Unresolved(name) == name # Null /\ \A k \in 1..Len(Directory) : Directory[k].name # name
\* the task ended without a raised update
RanThrough(r, t) == t \in Ended(r) /\ ~UpdateRaised(r, t)

\* C20: an executor name that resolves to no member causes no set-executor
\* request and no executor status, and a task with nothing else amiss succeeds;
\* the add-participants request is issued, once, iff a participant name
\* resolves, and it carries the resolved ids only.
C20_UnresolvedNamesDropped ==
    \A t \in TaskIds(1) :
        LET task == rtasks[1][t]
            adds == Requests(sent[1][t], "addTaskInvolvers")
        IN Matched(task) =>
              /\ Unresolved(task.executor) =>
                    /\ Requests(sent[1][t], "setTaskExecutor") = <<>>
                    /\ results[1][t]["executor"] = Absent
                    /\ (t \in Ended(1) /\ ~UpdateFailed(1, t) /\ task.plan_time = NoPlan)
                          => tout[1][t] = "success"
              /\ Len(adds) <= 1
              /\ adds # <<>> =>
                    (ResolvedIds(task.involvers) # <<>> /\ adds[1].ids = ResolvedIds(task.involvers))
              /\ (RanThrough(1, t) /\ ResolvedIds(task.involvers) # <<>>) => adds # <<>>
              /\ (ResolvedIds(task.involvers) = <<>> /\ t \in Ended(1)) =>
                    results[1][t]["involvers"] = Absent
\* an unresolved executor, and participants of whom one resolves
C20_Witness ==
    \E t \in Ended(1) :
        /\ rtasks[1][t].executor = "Zed"
        /\ rtasks[1][t].involvers = <<"Bob", Null, "Zed">>
        /\ rtasks[1][t].plan_time = NoPlan
        /\ Requests(sent[1][t], "addTaskInvolvers") # <<>>
        /\ Requests(sent[1][t], "addTaskInvolvers")[1].ids = <<"u2">>
        /\ tout[1][t] = "success"

\* C21: a failure of either request of the linked external roster (a failed
\* response or a raised error) does not abort the run: the external roster
\* counts as empty, the member directory of the run is the primary roster and
\* the run goes on with the rest of its bootstrap; a failure of the request of
\* the primary roster aborts the run before any batch.
C21_ExternalRosterFailureTolerated ==
    /\ roster[1].failed \in {"link", "members"} =>
          /\ roster[1].pc = "done"
          /\ roster[1].dd = <<>>
          /\ rmembers[1] = roster[1].tb
          /\ ret[1] # "error"
          /\ boot[1] = 4
    /\ roster[1].failed = "primary" =>
          /\ rpc[1] = "returned"
          /\ ret[1] = "error"
          /\ batches[1] = <<>>

\* The members request of the external roster failed and the task of the run
\* was processed to its end with the primary roster as directory.
C21_Witness ==
    /\ roster[1].failed = "members"
    /\ roster[1].tb = Directory
    /\ rmembers[1] = Directory
    /\ tout[1][1] = "success"
    /\ ret[1] = "ok"

\* The ids a roster lists under a display name.
IdsOf(members, name) ==
    { members[k].userId : k \in { j \in 1..Len(members) : members[j].name = name } }

\* C22: when the executor's display name is in both rosters under different
\* identifiers, the executor request carries the identifier of the linked
\* external roster.
C22_ExternalIdentifierWins ==
    \A t \in 1..Len(rtasks[1]) : \A q \in 1..Len(sent[1][t]) :
        LET name == rtasks[1][t].executor
            primary == IdsOf(roster[1].tb, name)
            external == IdsOf(roster[1].dd, name)
        IN (/\ sent[1][t][q].op = "setTaskExecutor"
            /\ primary # {}
            /\ external # {}
            /\ primary \cap external = {})
           => sent[1][t][q].ids[1] \in external

\* A task leaves the state pc in this step.
Leaves(t, pc) == tpc[1][t] = pc /\ tpc'[1][t] # pc

\* When a task starts, every task before it in the input has started; when a
\* waiter is admitted, no task before it in the input still waits.
InInputOrder ==
    \A t \in 1..Len(rtasks[1]) : \A u \in 1..(t - 1) :
        /\ Leaves(t, "ready") => tpc[1][u] \notin {"pending", "queued", "ready"}
        /\ Leaves(t, "queued") => tpc[1][u] \notin {"pending", "queued"}

\* The last batch started has ended: each of its tasks has finished and the
\* batch loop goes on.
BatchFinished ==
    /\ rpc[1] \in {"loop", "returned"}
    /\ batches[1] # <<>>
    /\ LET batch == batches[1][Len(batches[1])]
       IN \A k \in 1..Len(batch) : tpc[1][batch[k]] = "done"

\* C23: within a batch the tasks start in input order and the waiters for a
\* slot are admitted first come, first served; when every remote call of the
\* tasks ends, no task waits forever: every task of the batch finishes and the
\* batch completes.
C23_FifoAndBatchCompletes ==
    /\ [][InInputOrder]_vars
    /\ (rpc[1] = "batch") ~> BatchFinished

\* A batch of three tasks went through a semaphore of width 1: two of them
\* waited for the slot, and all three were processed.
C23_Witness ==
    /\ SemaphoreWidth(cfg) = 1
    /\ batches[1] # <<>>
    /\ Len(batches[1][1]) = 3
    /\ rpc[1] = "returned"
    /\ \A t \in 1..3 : tout[1][t] \in {"success", "skipped", "failed", "raised"}

\* A waiting caller has woken in this step.
Woke(c) == rlpc[c] = "waiting" /\ (rlpc'[c] # "waiting" \/ rlwake'[c] # rlwake[c])

\* A caller that wakes looks at the window again: while maxRequests grants are
\* younger than timeWindow it waits again, for a timer that is due later, and
\* nothing is granted to it; otherwise it is granted at the time it woke.
Reevaluates ==
    \A c \in Callers :
        Woke(c) =>
            IF Cardinality({ k \in 1..Len(requests) : now - requests[k] < TimeWindow })
                 >= MaxRequests
            THEN /\ rlpc'[c] = "waiting"
                 /\ rlwake'[c] > now
                 /\ grants' = grants
            ELSE /\ rlpc'[c] = "idle"
                 /\ grants' = Append(grants, now)

\* C24: every acquire() returns in the end, for the callers there are, as long
\* as time advances; a caller that wakes re-evaluates the window and waits again
\* while the window is still full.  (acquire() has no statement that raises:
\* its only outcomes are the grant and the wait.)
C24_AcquireReturns ==
    /\ [][Reevaluates]_vars
    /\ \A c \in Callers : (rlpc[c] = "waiting") ~> (rlpc[c] = "idle")

\* A caller slept twice in one acquire(): when it woke the window was full
\* again, and it was granted after its second sleep.
C24_Witness == \E c \in Callers : rlwaits[c] >= 2 /\ rlpc[c] = "idle"

\* C25: a call of request() makes at most 3 HTTP attempts, each after a grant
\* of the rate limiter of its own; a call whose attempts fail at the transport
\* level ends after the third of them with the terminal error that carries the
\* message of the last failure, having slept after the first two failures only.
C25_ThreeAttemptsThenTerminalError ==
    \A p \in Calls :
        /\ rqhttp[p] <= maxRetries
        /\ rqhttp[p] <= rqtries[p]
        /\ (rqpc[p] = "rejected" /\ rqresp[p].kind = "error") =>
              /\ rqhttp[p] = maxRetries
              /\ rqres[p].error = "Request failed after 3 retries: " \o rqresp[p].body
              /\ rqwaits[p] = << Backoff(1), Backoff(2) >>

\* The four results of the bootstrap are in: the organization id and the
\* tasklist id (calls 1 and 2), the member directory and the task index.
BootstrapComplete ==
    /\ boot[1] = 4
    /\ roster[1].pc = "done"
    /\ rpc[1] \in {"loop", "batch", "returned"}
    /\ ret[1] # "error"
    /\ rindex[1] = RemoteIndex

\* The bootstrap calls are made one after the other, in their order, the
\* requests of the rosters within the third; once the batch loop is entered no
\* bootstrap call is made and no bootstrap result changes.
BootstrapInOrder ==
    /\ boot'[1] # boot[1] => boot'[1] = boot[1] + 1
    /\ roster'[1] # roster[1] => boot'[1] \in {3, 4} /\ boot[1] \in {2, 3}
    /\ rpc[1] \in {"loop", "batch", "returned"} =>
           /\ boot'[1] = boot[1]
           /\ roster'[1] = roster[1]
           /\ rmembers'[1] = rmembers[1]
           /\ rindex'[1] = rindex[1]

\* C26: the bootstrap (organization id, tasklist id, member directory, task
\* index, in this order) is complete before the first batch: no batch starts
\* and no field-update request is sent until the four results are in, and no
\* bootstrap call is made once batch processing has begun.
C26_BootstrapBeforeBatches ==
    /\ [](batches[1] # <<>> => BootstrapComplete)
    /\ [](\A t \in 1..Len(rtasks[1]) : sent[1][t] # <<>> => BootstrapComplete)
    /\ [][BootstrapInOrder]_vars

\* A field-update request has been sent in the second batch of a run.
C26_Witness ==
    /\ Len(batches[1]) = 2
    /\ \E t \in 1..Len(rtasks[1]) : /\ sent[1][t] # <<>>
                                    /\ \E k \in 1..Len(batches[1][2]) : batches[1][2][k] = t
    /\ BootstrapComplete

\* A task whose processSingleTask starts after stop() leaves everything as it
\* is: no request, no counter.
StartsStoppedIdle ==
    \A t \in 1..Len(rtasks[1]) :
        (Leaves(t, "ready") /\ ~isRunning) =>
            /\ tout'[1][t] = "notrun"
            /\ tpc'[1][t] = "done"
            /\ stats' = stats
            /\ sent' = sent

\* C27: a task of the batch in flight that gets its slot only after stop()
\* issues no request and changes no counter, so a stopped run with such a task
\* returns statistics with success + failed + skipped < total.
C27_LateTaskDoesNothing ==
    /\ [][StartsStoppedIdle]_vars
    /\ [](\A t \in 1..Len(rtasks[1]) :
             tout[1][t] = "notrun" => (stopped[1] /\ sent[1][t] = <<>>))
    /\ []((ret[1] = "ok" /\ \E t \in 1..Len(rtasks[1]) : tout[1][t] = "notrun")
             => stats.success + stats.failed + stats.skipped < stats.total)

\* A stopped run has returned: its first task was processed, its second task
\* got the slot after stop() and was not.
C27_Witness ==
    /\ ret[1] = "ok"
    /\ stopped[1]
    /\ Len(rtasks[1]) >= 2
    /\ tout[1][1] \in {"success", "failed", "raised"}
    /\ tout[1][2] = "notrun"
    /\ stats.success + stats.failed + stats.skipped = 1

\* sync() is called with tasks, and sync() returns its statistics, in this step.
Starts(r) == rpc[r] = "idle" /\ rpc'[r] # "idle" /\ ret'[r] # "empty"
Returns(r) == rpc[r] # "returned" /\ rpc'[r] = "returned" /\ ret'[r] = "ok"

\* The statistics st count the tasks of the invocation r and nothing else.
OwnStats(r, st) ==
    /\ st.total = Len(rtasks[r])
    /\ st.success = CountOf(r, {"success"})
    /\ st.failed = CountOf(r, {"failed", "raised"})
    /\ st.skipped = CountOf(r, {"skipped"})
    /\ Len(st.failedTasks) = CountOf(r, {"failed", "raised"})

\* C28: every run starts with fresh statistics (zero counters, no failed rows,
\* total = the number of its tasks), so the statistics the latest run returns
\* hold the counts and failed rows of its own tasks only, whatever runs came
\* before it.
C28_StatsOfOwnRunOnly ==
    [][\A r \in Runs :
          /\ Starts(r) => stats' = FreshStats(Len(rtasks'[r]))
          /\ (Returns(r) /\ \A q \in Runs : q > r => rpc[q] = "idle")
                => OwnStats(r, stats')]_vars

\* The same for a run that was called when no other run was active: this one
\* holds.
StatsOwnWhenSequential ==
    [][\A r \in Runs :
          (Returns(r) /\ ~overlap[r] /\ \A q \in Runs : q > r => rpc[q] = "idle")
                => OwnStats(r, stats')]_vars

\* C29: processing a batch leaves the remote task index and the member
\* directory of the run as the bootstrap returned them, so whether a task
\* matches does not depend on the tasks processed before it: a task that was
\* processed was skipped exactly when its name matches no entry of the index
\* the bootstrap returned, and two source tasks may resolve to the same remote
\* task.
C29_BatchLeavesIndexAndDirectory ==
    /\ [][rpc[1] \in {"loop", "batch", "returned"} =>
             (rindex'[1] = rindex[1] /\ rmembers'[1] = rmembers[1])]_vars
    /\ [](\A t \in 1..Len(rtasks[1]) :
             tout[1][t] \notin {"none", "notrun"} =>
                 /\ rindex[1] = RemoteIndex
                 /\ rmembers[1] = Directory
                 /\ tout[1][t] = "skipped" <=>
                        MatchTask(TaskName(rtasks[1][t]), RemoteIndex) = Null)

\* Three tasks of one run: the first and the third carry the same name and were
\* both updated on the remote task of that name, the second was skipped.
C29_Witness ==
    /\ Len(rtasks[1]) = 3
    /\ TaskName(rtasks[1][1]) = NameABC
    /\ TaskName(rtasks[1][2]) = NameQ
    /\ TaskName(rtasks[1][3]) = NameABC
    /\ \A t \in {1, 3} : tout[1][t] = "success" /\ sent[1][t] # <<>>
    /\ tout[1][2] = "skipped"
    /\ rindex[1] = RemoteIndex

\* C30: in every reachable state, under any sequence and interleaving of
\* sync(), stop() and task completions, the failed counter is the number of
\* entries of failedTasks.
C30_FailedCountsItsRows == stats.failed = Len(stats.failedTasks)

\* Tasks of two overlapping runs have failed into the same statistics, after
\* a stop().
C30_Witness ==
    /\ overlap[2]
    /\ \E r \in Runs : stopped[r]
    /\ \E t \in TaskIds(1) : tout[1][t] \in {"failed", "raised"}
    /\ \E t \in TaskIds(2) : tout[2][t] \in {"failed", "raised"}
    /\ stats.failed >= 1

\* C31: in every reachable state, under any sequence and interleaving of
\* sync(), stop() and task completions (a sync() called while an earlier run
\* still drains included), success + failed + skipped <= total.
C31_CountsWithinTotal == stats.success + stats.failed + stats.skipped <= stats.total

\* The same for a second sync() called after stop(), when isRunning is false
\* and the first run still drains: this one is violated too.
CountsWithinTotalAfterStop ==
    (stopped[1] /\ ~stopped[2] /\ overlap[2]) =>
        stats.success + stats.failed + stats.skipped <= stats.total

\* C32: the UI start action lets at most one synchronisation be in progress:
\* from the moment a startSync invocation passes its isSyncing guard until it
\* finishes, every other startSync invocation is rejected, and the main process
\* never has two sync() calls of the start-sync handler running at once.
InProgress(u) == upc[u] \in {"validate", "read", "initialize", "sync"}
C32_OneSyncAtATime ==
    /\ [][\A u \in Clicks :
            (upc[u] = "idle" /\ upc'[u] # "idle" /\ \E v \in Clicks : InProgress(v))
                => upc'[u] = "rejected"]_vars
    /\ [](\A u, v \in Clicks :
            (msync[u] = "running" /\ msync[v] = "running") => u = v)

\* The second half alone, as long as no invocation passed the guard while
\* another one awaited validateConfig(): violated as well, because stopSync()
\* clears isSyncing while the sync() call of an earlier start-sync still runs.
NoOverlapBehindTheFlag ==
    ~raced =>
        (\A u, v \in Clicks : (msync[u] = "running" /\ msync[v] = "running") => u = v)

\* C33: when the read of the recorded planned time fails, by raising or by
\* returning a failure, the current value is taken as 0 and the whole requested
\* amount is submitted as one new entry, whatever is recorded remotely (nothing
\* is submitted for a requested amount of 0): a task run again after such a
\* read adds the requested amount on top of what is already allocated.
C33_FailedReadSubmitsAll ==
    \A t \in TaskIds(1) :
        (Reads(sent[1][t]) # <<>> /\ Reads(sent[1][t])[1].outcome \in {"fail", "raise"}) =>
            LET r == PlanTimeMs(rtasks[1][t])
                posts == Posts(sent[1][t])
            IN /\ cur[1][t] = 0
               /\ IF r > 0
                  THEN Len(posts) = 1 /\ posts[1].planTime = r
                  ELSE posts = <<>>
\* 1.5h requested and 1.5h already recorded remotely; the read raises, and
\* 1.5h is submitted again
C33_Witness ==
    \E t \in TaskIds(1) :
        /\ rtasks[1][t].plan_time = 3
        /\ Reads(sent[1][t]) # <<>>
        /\ Reads(sent[1][t])[1].outcome = "raise"
        /\ Reads(sent[1][t])[1].planTime = PlanTimeMs(rtasks[1][t])
        /\ Len(Posts(sent[1][t])) = 1
        /\ Posts(sent[1][t])[1].planTime = PlanTimeMs(rtasks[1][t])

\* C34: a matched task with no populated field (no date, no reminder, no
\* executor and no participant that resolves, no planned hours) issues no
\* remote request and is counted as a success.
NoField(task) == \A k \in 1..5 : ~Populated(cfg, task, Directory, k)
C34_NoFieldIsSuccess ==
    \A t \in TaskIds(1) :
        (Matched(rtasks[1][t]) /\ NoField(rtasks[1][t])) =>
            /\ sent[1][t] = <<>>
            /\ t \in Ended(1) =>
                  /\ tout[1][t] = "success"
                  /\ stats.success = Cardinality({u \in Ended(1) : tout[1][u] = "success"})
                  /\ \A k \in 1..Len(stats.failedTasks) :
                        stats.failedTasks[k].row # rtasks[1][t].rowIndex
\* an executor and a participant that are no members, and nothing else
C34_Witness ==
    \E t \in Ended(1) :
        /\ rtasks[1][t].executor = "Zed"
        /\ rtasks[1][t].involvers = <<"Zed">>
        /\ NoField(rtasks[1][t])
        /\ sent[1][t] = <<>>
        /\ stats.success = 1
        /\ stats.failed = 0

\* C35: stop() called while no run is active changes nothing and is not
\* remembered: a sync() made afterwards processes all its batches; and a
\* stop() that ended a run does not cancel a later run started after that run
\* returned.  Every run that returns without a stop() of its own has started
\* all its batches and processed all its tasks.
AllBatchesDone(r) ==
    /\ batches[r] = ExpectedBatches(Len(rtasks[r]), BatchSize(cfg))
    /\ \A t \in TaskIds(r) : tout[r][t] \in {"success", "failed", "raised", "skipped"}
C35_StopIsNotRemembered ==
    /\ [][idleStops' # idleStops => UNCHANGED <<enVars, clVars, bsVars>>]_vars
    /\ [](\A r \in Runs : (ret[r] = "ok" /\ ~stopped[r]) => AllBatchesDone(r))
\* the first run was ended by stop(), stop() was called again after it had
\* returned, and the second run went through its two batches
C35_Witness ==
    /\ stopped[1] /\ ret[1] = "ok" /\ ~AllBatchesDone(1)
    /\ 1 \in idleStops
    /\ ret[2] = "ok" /\ ~stopped[2]
    /\ Len(batches[2]) = 2

\* C36: sync() with an empty task list returns a failure at once and starts no
\* run: it issues no remote request and leaves isRunning and the statistics
\* of any earlier or still active run as they are.
EmptySyncStep(r) == rpc[r] = "idle" /\ rpc'[r] # "idle" /\ rtasks'[r] = <<>>
C36_EmptySyncStartsNothing ==
    /\ [][\A r \in Runs :
            EmptySyncStep(r) =>
                /\ rpc'[r] = "returned" /\ ret'[r] = "empty"
                /\ isRunning' = isRunning /\ stats' = stats
                /\ apiClient' = apiClient /\ cache' = cache
                /\ \A q \in Runs \ {r} : rpc'[q] = rpc[q] /\ ret'[q] = ret[q]]_vars
    /\ [](\A r \in Runs :
            (rpc[r] # "idle" /\ rtasks[r] = <<>>) =>
                /\ rpc[r] = "returned" /\ ret[r] = "empty"
                /\ boot[r] = 0 /\ nbatch[r] = 0 /\ roster[r] = NoRoster)
\* sync([]) was called while the first run, with its own statistics, is in a
\* batch and has counted a task
C36_Witness ==
    /\ ret[2] = "empty"
    /\ rpc[1] = "batch"
    /\ isRunning
    /\ stats.total = Len(rtasks[1])
    /\ stats.success + stats.failed + stats.skipped >= 1

\* C37: in the fuzzy pass, when several entries of the index tie at the highest
\* similarity above 0.5, the first of them in the iteration order of the index
\* is returned: a later entry replaces the match only with a strictly higher
\* score.
\* 1 - a.d / a.m <= 1 - b.d / b.m
NotHigher(a, b) == a.d * b.m >= b.d * a.m
\* the entries above 0.5 that no entry exceeds, for the scores sc of the entries
BestOf(sc) ==
    { k \in DOMAIN sc :
        /\ 2 * sc[k].d < sc[k].m
        /\ \A j \in DOMAIN sc : NotHigher(sc[j], sc[k]) }
BestEntries ==
    BestOf([k \in 1..Len(mindex) |-> calculateSimilarity(mname, mindex[k].name)])
C37_FirstOfTiesWins ==
    (mpc = "matched" /\ ExactMatch(mname, mindex, 1) = Null) =>
        LET best == BestEntries
        IN IF best = {} THEN mid = Null
           ELSE mid = mindex[CHOOSE k \in best : \A j \in best : k <= j].id
\* two entries that differ from the name in case only: both score 1, the first
\* one is the match
C37_Witness ==
    /\ mpc = "matched"
    /\ ExactMatch(mname, mindex, 1) = Null
    /\ BestEntries = {1, 2}
    /\ mindex[1].name # mindex[2].name
    /\ mid = mindex[1].id

(***************************************************************************)
(* Specifications                                                          *)
(***************************************************************************)
EnIdle == EnInit /\ cfg = CHOOSE c \in Configs : TRUE

InitRL == RLInit /\ RQInit /\ EnIdle /\ MtInit /\ UiInit

NextRL ==
    \/ \E c \in Callers : RLAcquire(c)
    \/ \E c \in Callers : RLWake(c)
    \/ RLTick

SpecRL == InitRL /\ [][NextRL]_vars

\* The same when time advances and a due setTimeout fires.
SpecRLFair ==
    /\ SpecRL
    /\ WF_vars(RLTick)
    /\ \A c \in Callers : WF_vars(RLWake(c))

InitReq == RLInit /\ RQInit /\ EnIdle /\ MtInit /\ UiInit

NextReq ==
    \/ \E p \in Calls, urlOk \in BOOLEAN : RQCall(p, urlOk)
    \/ \E p \in Calls : RQGranted(p)
    \/ \E p \in Calls : RQBackoffDone(p)
    \/ \E p \in Calls, ev \in HttpEvents : RQHttpEnd(p, ev)

SpecReq == InitReq /\ [][NextReq]_vars

Init == RLInit /\ RQInit /\ EnInit /\ MtInit /\ UiInit /\ cfg \in Configs

Next ==
    \/ \E r \in Runs : rpc[r] = "idle" /\ \E tl \in TaskListsOf(EngineShapes, MaxTasks) : Sync(r, tl)
    \/ \E r \in Runs, ok \in BOOLEAN : BootstrapDone(r, ok)
    \/ \E r \in Runs, ev \in EngineEvents : RosterTb(r, ev, Directory)
    \/ \E r \in Runs : RosterLink(r, OkResponse, FALSE)
    \/ \E r \in Runs : BatchLoop(r)
    \/ \E r \in Runs, t \in 1..MaxTasks : TaskStart(r, t)
    \/ \E r \in Runs, t \in 1..MaxTasks, ev \in EngineEvents : FieldDone(r, t, ev)
    \* stop() with no call active finds isRunning false and does nothing: SpecStop
    \/ (\E r \in Runs : Active(r)) /\ Stop

Spec == Init /\ [][Next]_vars

\* sync() calls made one after the other, each after the one before it has
\* returned, and stop() at any time, also while no call is active; the tasks
\* have one field each.
InitStop ==
    RLInit /\ RQInit /\ EnInit /\ MtInit /\ UiInit /\ cfg \in { c \in Configs : ConfigValid(c) }

NextStop ==
    \/ \E r \in Runs : /\ \A q \in Runs : ~Active(q)
                        /\ \E tl \in TaskListsOf({Follower}, MaxTasks) : Sync(r, tl)
    \/ \E r \in Runs : BootstrapDone(r, TRUE)
    \/ \E r \in Runs : RosterTb(r, OkResponse, Directory)
    \/ \E r \in Runs : RosterLink(r, OkResponse, FALSE)
    \/ \E r \in Runs : BatchLoop(r)
    \/ \E r \in Runs, t \in 1..MaxTasks : TaskStart(r, t)
    \/ \E r \in Runs, t \in 1..MaxTasks, ev \in EngineEvents : FieldDone(r, t, ev)
    \/ Stop

SpecStop == InitStop /\ [][NextStop]_vars

\* One invocation of sync() that is not stopped, over every task shape.
InitTask == RLInit /\ RQInit /\ EnInit /\ MtInit /\ UiInit /\ cfg \in TaskConfigs

NextTask ==
    \/ rpc[1] = "idle" /\ \E tl \in SingleTaskLists : Sync(1, tl)
    \/ BootstrapDone(1, TRUE)
    \/ RosterTb(1, OkResponse, Directory)
    \/ RosterLink(1, OkResponse, FALSE)
    \/ BatchLoop(1)
    \/ \E t \in 1..2 : TaskStart(1, t)
    \/ \E t \in 1..2, ev \in EngineEvents : FieldDone(1, t, ev)
    \/ \E t \in 1..2, ev \in EngineEvents, rec \in Recorded : PlanReadDone(1, t, ev, rec)

SpecTask == InitTask /\ [][NextTask]_vars

\* One invocation of sync(), with stop() during the run and failing bootstrap
\* calls, over several batches.
InitRun == RLInit /\ RQInit /\ EnInit /\ MtInit /\ UiInit /\ cfg \in RunConfigs

NextRun ==
    \/ rpc[1] = "idle" /\ \E tl \in RunLists : Sync(1, tl)
    \/ \E ok \in BOOLEAN : BootstrapDone(1, ok)
    \/ \E ev \in EngineEvents : RosterTb(1, ev, Directory)
    \/ RosterLink(1, OkResponse, FALSE)
    \/ BatchLoop(1)
    \/ \E t \in 1..Len(rtasks[1]) : TaskStart(1, t)
    \/ \E t \in 1..Len(rtasks[1]), ev \in EngineEvents : FieldDone(1, t, ev)
    \/ Active(1) /\ Stop

SpecRun == InitRun /\ [][NextRun]_vars

\* The same under the scheduling of the event loop: a queued continuation runs,
\* and every remote call of a task ends (with a response or an error).
SpecRunFair ==
    /\ SpecRun
    /\ WF_vars(BatchLoop(1))
    /\ WF_vars(\E t \in 1..Len(rtasks[1]) : TaskStart(1, t))
    /\ WF_vars(\E t \in 1..Len(rtasks[1]), ev \in EngineEvents : FieldDone(1, t, ev))

\* One invocation of sync() whose getAllMembers meets every roster and every
\* outcome of its three requests.
InitMembers == RLInit /\ RQInit /\ EnInit /\ MtInit /\ UiInit /\ cfg \in MemberConfigs

NextMembers ==
    \/ rpc[1] = "idle" /\ \E tl \in MemberLists : Sync(1, tl)
    \/ BootstrapDone(1, TRUE)
    \/ \E ev \in EngineEvents, members \in PrimaryRosters : RosterTb(1, ev, members)
    \/ \E ev \in EngineEvents, bound \in BOOLEAN : RosterLink(1, ev, bound)
    \/ \E ev \in EngineEvents, members \in ExternalRosters : RosterDd(1, ev, members)
    \/ BatchLoop(1)
    \/ TaskStart(1, 1)
    \/ \E ev \in EngineEvents : FieldDone(1, 1, ev)

SpecMembers == InitMembers /\ [][NextMembers]_vars

\* The matcher over every name and index of the bounds.
InitMatch ==
    /\ RLInit /\ RQInit /\ EnIdle /\ UiInit
    /\ mpc = "input"
    /\ mname \in SourceNames
    /\ mindex \in Indexes
    /\ mid = Null
    /\ mdist = NoDist

NextMatch ==
    \/ Match
    \/ \E k \in 1..MaxIndex : Compare(k)

SpecMatch == InitMatch /\ [][NextMatch]_vars

\* The renderer: every order of start clicks, stop clicks and answers.
InitUI == RLInit /\ RQInit /\ EnIdle /\ MtInit /\ UiInit

NextUI ==
    \/ \E u \in Clicks : startSync(u)
    \/ \E u \in Clicks, outcome \in UiOutcomes : ValidateDone(u, outcome)
    \/ \E u \in Clicks, outcome \in UiOutcomes : ReadDone(u, outcome)
    \/ \E u \in Clicks, outcome \in UiOutcomes : InitializeDone(u, outcome)
    \/ \E u \in Clicks : StartSyncHandler(u)
    \/ \E u \in Clicks : StartSyncReturns(u)
    \/ \E u \in Clicks : SyncResult(u)
    \/ \E u \in Clicks : StopSyncDone(u)
    \/ StopClick
    \/ StopClickDone

SpecUI == InitUI /\ [][NextUI]_vars

====
